---------------------------- MODULE Spec2Model ----------------------------
(***************************************************************************)
(* Verification model of the heliotime flux server (i4Ds/heliotime-v2).    *)
(*                                                                         *)
(* Three parts of the server are modelled, each with its own               *)
(* specification over the shared variables:                                *)
(*   SpecPipeline  the archive importer's batch pipeline                   *)
(*                 (importer/flux/archive.py)                              *)
(*   SpecStore     import_flux and the reads of the store                  *)
(*                 (data/flux/access.py)                                   *)
(*   SpecPrepare   prepare_flux_channels followed by import_flux           *)
(*                 (importer/flux/_prepare.py)                             *)
(*   SpecFetch     the query fetcher (data/flux/fetcher.py)                *)
(* A specification leaves the variables of the other parts unchanged.      *)
(*                                                                         *)
(* Time is counted in integer ticks.  Durations of the program (border     *)
(* sizes, bucket sizes, raw resolutions) are scaled down to a few ticks,   *)
(* keeping their order and their divisibility.                             *)
(***************************************************************************)
EXTENDS Integers, Sequences, FiniteSets, TLC

VARIABLES
    \* ---- archive importer pipeline (importer/flux/archive.py) ----
    pc,              \* position of each batch's worker in _process_import_files
    search_event,    \* search_event[b]: the Event batch b sets; [0] is created set
    download_event,
    database_event,
    main_pc,         \* position of ArchiveImporter._import_from
    main_index,      \* index into async_results of the res.get() loop
    \* ---- the store (data/flux/access.py) ----
    table,           \* table[source]: the committed rows <<channel, time, flux>>
    aggs,            \* aggs[source][k]: the materialised rows of the k-th roll-up
    import_source,   \* the source argument of import_flux
    imp_pc,          \* position of import_flux
    channels,        \* the channels argument: entries in dict order
    txn,             \* the source table as the open transaction sees it
    copy_index,      \* index of the insert loop
    buffer,          \* the lines in the BytesIO buffer
    refresh_index,   \* index of the refresh loop
    refreshed,       \* the refresh statements this call has issued
    fail_reason,     \* why the call raised
    table_before,    \* the source table when the call started
    repeat,          \* this call repeats the arguments of the call before it
    \* ---- prepare_flux_channels (importer/flux/_prepare.py) ----
    prep_pc,         \* position of the importer in prepare_flux_channels / import_flux
    prep_range,      \* the time_range argument
    prep_channels,   \* the channels dict of prepare_flux_channels, in dict order
    \* ---- the query fetcher (data/flux/fetcher.py) ----
    _ranges,         \* FluxFetcher._ranges: source -> <<first, last>>, or <<>> for no entry
    fetch_pc,        \* position of FluxFetcher.fetch / fetch_raw
    request,         \* the arguments <<start, end, interval>> of the fetch
    sections,        \* the section fetches _fetch_sections issued, in order
    result,          \* the concatenated rows the fetch returned
    \* ---- the live importer and its supervisor (importer/flux/live.py, _base.py) ----
    live_pc,         \* position of _start_async / start_import / _import_from
    import_start,    \* config.IMPORT_START of the running process
    live_now,        \* the clock
    live_start,      \* the start (resume point) of the iteration
    feeds,           \* the JSON of the feeds polled in the iteration, primary first
    live_channels,   \* the channels dict of _import_from, in dict order
    imported,        \* the prepared channels the iteration handed to import_flux
    \* ---- the download stage of an archive batch (importer/flux/archive.py) ----
    batch_pc,        \* position of _process_import_async from the download stage on
    dl_pc,           \* dl_pc[satellite]: position of the satellite's _download task
    i_try,           \* i_try[satellite]: the tries _download_results has made
    slept,           \* slept[satellite]: the seconds of its asyncio.sleep calls, in order
    files,           \* files[satellite]: the files the last Fido.fetch delivered
    error_log,       \* the satellites with a "Giving up" line in the error log
    batch_channels,  \* the channels dict handed to prepare_flux_channels
    batch_imported,  \* the prepared channels handed to import_flux
    \* ---- the combiner (importer/flux/_combine.py) ----
    combine_pc,      \* position of a call of _combine_band
    combine_args,    \* its arguments <<band, band_channels>>, the channels a set of [channel, flux]
    result_channels, \* the dict it returned, in dict order
    \* ---- the cleaner (importer/flux/_clean.py) ----
    clean_pc,        \* position of a call of clean_flux
    clean_input,     \* its argument: the rows <<time, flux>> of the series in order
    clean_output,    \* the rows of the series it returned
    \* ---- the refresh task of the fetcher (data/flux/fetcher.py) ----
    update_pc,       \* position of FluxFetcher._update_periodically
    \* ---- the cleanup step of an archive batch (importer/flux/archive.py) ----
    cleanup_pc,      \* position of _process_import_async from database_event.set() on
    batch_database_event, \* the batch's database_event
    path,            \* the loop variable of the generator of unlink jobs (0: unbound)
    unlink_jobs,     \* unlink_jobs[i]: state of the i-th job handed to the executor
    staged,          \* the files in the staging directory
    \* ---- the wait of the live importer (importer/flux/live.py) ----
    wait_pc,         \* position of the wait computation of LiveImporter._import_from
    responses,       \* the headers of the responses of the primary and the secondary feed
    wait_delta,      \* the seconds _import_from returned
    \* ---- the clean tasks of prepare_flux_channels (importer/flux/_prepare.py) ----
    outer_pc,        \* position of the task that runs prepare_flux_channels and import_flux
    clean_tasks,     \* clean_tasks[i]: state of the i-th task of the deque
    await_index,     \* the task the loop "channels[...] = await task" is at
    ran,             \* what ran after the clean tasks: "combine", "import"
    \* ---- the index of the fetcher (data/flux/fetcher.py) ----
    index_pc,        \* position of the refresh task inside update()
    update_locals,   \* the locals of update(): ranges, start, end, and the source it is at
    self_start,      \* FluxFetcher.start
    self_end,        \* FluxFetcher.end
    \* ---- the batch ranges of ArchiveImporter._import_from ----
    range_pc,        \* position of _import_from in the computation of the batch ranges
    batch_start,     \* the start argument (the resume point), in ticks
    batch_now,       \* now = datetime.now(timezone.utc), in ticks
    batch_today,     \* date.today(): the local date, in days
    start_date,      \* the loop variable over days[::_BATCH_SIZE_DAYS], in days
    time_ranges      \* the time_range of the batches submitted, in order

pipeVars == <<pc, search_event, download_event, database_event, main_pc, main_index>>

storeVars == <<table, aggs, import_source, imp_pc, channels, txn, copy_index, buffer,
               refresh_index, refreshed, fail_reason, table_before, repeat>>

prepVars == <<prep_pc, prep_range, prep_channels>>

fetchVars == <<_ranges, fetch_pc, request, sections, result>>

liveVars == <<live_pc, import_start, live_now, live_start, feeds, live_channels, imported>>

downloadVars == <<batch_pc, dl_pc, i_try, slept, files, error_log, batch_channels, batch_imported>>

combineVars == <<combine_pc, combine_args, result_channels>>

cleanVars == <<clean_pc, clean_input, clean_output>>

refreshVars == <<update_pc>>

cleanupVars == <<cleanup_pc, batch_database_event, path, unlink_jobs, staged>>

waitVars == <<wait_pc, responses, wait_delta>>

taskVars == <<outer_pc, clean_tasks, await_index, ran>>

indexVars == <<index_pc, update_locals, self_start, self_end>>

rangeVars == <<range_pc, batch_start, batch_now, batch_today, start_date, time_ranges>>

lateVars == <<cleanupVars, waitVars, taskVars, indexVars, rangeVars>>

auxVars == <<downloadVars, combineVars, cleanVars, refreshVars, lateVars>>

nonPipeVars == <<storeVars, prepVars, fetchVars, liveVars, auxVars>>

nonStoreVars == <<pipeVars, prepVars, fetchVars, liveVars, auxVars>>

nonFetchVars == <<pipeVars, storeVars, prepVars, liveVars, auxVars>>

vars == <<pipeVars, storeVars, prepVars, fetchVars, liveVars, auxVars>>

-----------------------------------------------------------------------------
(***************************************************************************)
(* Archive importer pipeline                                               *)
(***************************************************************************)

\* Size of the worker pool.
_WORKER_COUNT == 2

\* Number of batches _import_from submits (days[::_BATCH_SIZE_DAYS]).
NumBatches == 4

Batches == 1..NumBatches

\* A worker process holds the batch from pick-up until the task function ends.
InWorker == {"wait_search", "search", "wait_download", "download",
             "wait_database", "database", "cleanup", "exiting"}

Busy == {b \in Batches : pc[b] \in InWorker}

\* Pool.apply_async queues the tasks in submission order; a free worker of the
\* pool takes the oldest queued task.
CanPickUp(b) ==
    /\ pc[b] = "queued"
    /\ \A a \in Batches : a < b => pc[a] # "queued"
    /\ Cardinality(Busy) < _WORKER_COUNT

\* last_search_event.wait(), last_download_event.wait(), last_database_event.wait():
\* batch b is handed the events of batch b - 1 as its last_* events.
SearchGateNoWait(b) == TRUE
SearchGate(b) == search_event[b - 1]

DownloadGateNoWait(b) == TRUE
DownloadGate(b) == download_event[b - 1]

DatabaseGate(b) == database_event[b - 1]

PipeInit ==
    /\ pc = [b \in Batches |-> "queued"]
    /\ search_event = [b \in 0..NumBatches |-> b = 0]
    /\ download_event = [b \in 0..NumBatches |-> b = 0]
    /\ database_event = [b \in 0..NumBatches |-> b = 0]
    /\ main_pc = "waiting"
    /\ main_index = 1

PoolAlive == main_pc = "waiting"

\* A pool worker starts _process_import_files for the next queued batch.
PickUp(b) ==
    /\ PoolAlive
    /\ CanPickUp(b)
    /\ pc' = [pc EXCEPT ![b] = "wait_search"]
    /\ UNCHANGED <<search_event, download_event, database_event, main_pc, main_index>>
    /\ UNCHANGED nonPipeVars

StartSearch(b) ==
    /\ PoolAlive
    /\ pc[b] = "wait_search"
    /\ SearchGate(b)
    /\ pc' = [pc EXCEPT ![b] = "search"]
    /\ UNCHANGED <<search_event, download_event, database_event, main_pc, main_index>>
    /\ UNCHANGED nonPipeVars

\* _search returns; search_event.set(); an empty result returns early.
FinishSearch(b) ==
    /\ PoolAlive
    /\ pc[b] = "search"
    /\ \E found \in BOOLEAN :
          pc' = [pc EXCEPT ![b] = IF found THEN "wait_download" ELSE "exiting"]
    /\ search_event' = [search_event EXCEPT ![b] = TRUE]
    /\ UNCHANGED <<download_event, database_event, main_pc, main_index>>
    /\ UNCHANGED nonPipeVars

StartDownload(b) ==
    /\ PoolAlive
    /\ pc[b] = "wait_download"
    /\ DownloadGate(b)
    /\ pc' = [pc EXCEPT ![b] = "download"]
    /\ UNCHANGED <<search_event, download_event, database_event, main_pc, main_index>>
    /\ UNCHANGED nonPipeVars

\* The downloads end, download_event.set(), and the channels are collected.
FinishDownload(b) ==
    /\ PoolAlive
    /\ pc[b] = "download"
    /\ pc' = [pc EXCEPT ![b] = "wait_database"]
    /\ download_event' = [download_event EXCEPT ![b] = TRUE]
    /\ UNCHANGED <<search_event, database_event, main_pc, main_index>>
    /\ UNCHANGED nonPipeVars

\* prepare_flux_channels, import_flux and recompress_chunks run in this stage.
StartDatabase(b) ==
    /\ PoolAlive
    /\ pc[b] = "wait_database"
    /\ DatabaseGate(b)
    /\ pc' = [pc EXCEPT ![b] = "database"]
    /\ UNCHANGED <<search_event, download_event, database_event, main_pc, main_index>>
    /\ UNCHANGED nonPipeVars

FinishDatabase(b) ==
    /\ PoolAlive
    /\ pc[b] = "database"
    /\ pc' = [pc EXCEPT ![b] = "cleanup"]
    /\ database_event' = [database_event EXCEPT ![b] = TRUE]
    /\ UNCHANGED <<search_event, download_event, main_pc, main_index>>
    /\ UNCHANGED nonPipeVars

FinishCleanup(b) ==
    /\ PoolAlive
    /\ pc[b] = "cleanup"
    /\ pc' = [pc EXCEPT ![b] = "exiting"]
    /\ UNCHANGED <<search_event, download_event, database_event, main_pc, main_index>>
    /\ UNCHANGED nonPipeVars

\* A task function that ends without setting the events.
ExitQuiet(b) ==
    /\ PoolAlive
    /\ pc[b] = "exiting"
    /\ pc' = [pc EXCEPT ![b] = "done"]
    /\ UNCHANGED <<search_event, download_event, database_event, main_pc, main_index>>
    /\ UNCHANGED nonPipeVars

\* asyncio.run returned: _process_import_files sets all three events.
Exit(b) ==
    /\ PoolAlive
    /\ pc[b] = "exiting"
    /\ pc' = [pc EXCEPT ![b] = "done"]
    /\ search_event' = [search_event EXCEPT ![b] = TRUE]
    /\ download_event' = [download_event EXCEPT ![b] = TRUE]
    /\ database_event' = [database_event EXCEPT ![b] = TRUE]
    /\ UNCHANGED <<main_pc, main_index>>
    /\ UNCHANGED nonPipeVars

\* An exception leaves _process_import_async: no further event is set.
Raise(b) ==
    /\ PoolAlive
    /\ pc[b] \in {"search", "download", "database", "cleanup"}
    /\ pc' = [pc EXCEPT ![b] = "failed"]
    /\ UNCHANGED <<search_event, download_event, database_event, main_pc, main_index>>
    /\ UNCHANGED nonPipeVars

\* res.get() of the batch the loop is at returns.
MainGet ==
    /\ main_pc = "waiting"
    /\ main_index \in Batches
    /\ pc[main_index] = "done"
    /\ main_index' = main_index + 1
    /\ UNCHANGED <<pc, search_event, download_event, database_event, main_pc>>
    /\ UNCHANGED nonPipeVars

\* A parent that joins the pool before it terminates it: it raises only once
\* no batch is queued or in a worker.
MainJoinFirst ==
    /\ main_pc = "waiting"
    /\ main_index \in Batches
    /\ pc[main_index] = "failed"
    /\ \A b \in Batches : pc[b] \in {"done", "failed"}
    /\ main_pc' = "raised"
    /\ UNCHANGED <<pc, search_event, download_event, database_event, main_index>>
    /\ UNCHANGED nonPipeVars

\* res.get() re-raises the worker's exception: pool.terminate() and raise.
MainTerminate ==
    /\ main_pc = "waiting"
    /\ main_index \in Batches
    /\ pc[main_index] = "failed"
    /\ main_pc' = "raised"
    /\ pc' = [b \in Batches |->
                IF pc[b] \in InWorker \cup {"queued"} THEN "killed" ELSE pc[b]]
    /\ UNCHANGED <<search_event, download_event, database_event, main_index>>
    /\ UNCHANGED nonPipeVars

\* All results were collected: pool.close(), pool.join(), return.
MainReturn ==
    /\ main_pc = "waiting"
    /\ main_index = NumBatches + 1
    /\ main_pc' = "returned"
    /\ UNCHANGED <<pc, search_event, download_event, database_event, main_index>>
    /\ UNCHANGED nonPipeVars

\* The pipeline variables as a new call of _import_from finds them: a new
\* pool, new events, every batch queued.
NewImport ==
    /\ pc' = [b \in Batches |-> "queued"]
    /\ search_event' = [b \in 0..NumBatches |-> b = 0]
    /\ download_event' = [b \in 0..NumBatches |-> b = 0]
    /\ database_event' = [b \in 0..NumBatches |-> b = 0]
    /\ main_pc' = "waiting"
    /\ main_index' = 1

\* _start_async, "except:": the exception that left asyncio.run(start()) is
\* logged, the process sleeps _RESTART_DELAY and the loop starts the importer
\* again.
SuperviseRestart ==
    /\ main_pc = "raised"
    /\ NewImport
    /\ UNCHANGED nonPipeVars

\* start_import: _import_from returned, asyncio.sleep(wait_delta), and the
\* loop calls _import_from again.
NextImport ==
    /\ main_pc = "returned"
    /\ NewImport
    /\ UNCHANGED nonPipeVars

\* _start_async, "except KeyboardInterrupt": raised during one of the sleeps,
\* it is raised again and ends the loop.
KeyboardInterrupt ==
    /\ main_pc \in {"raised", "returned"}
    /\ main_pc' = "interrupted"
    /\ UNCHANGED <<pc, search_event, download_event, database_event, main_index>>
    /\ UNCHANGED nonPipeVars

PipeNext ==
    \/ SuperviseRestart
    \/ NextImport
    \/ KeyboardInterrupt
    \/ \E b \in Batches : PickUp(b)
    \/ \E b \in Batches : StartSearch(b)
    \/ \E b \in Batches : FinishSearch(b)
    \/ \E b \in Batches : StartDownload(b)
    \/ \E b \in Batches : FinishDownload(b)
    \/ \E b \in Batches : StartDatabase(b)
    \/ \E b \in Batches : FinishDatabase(b)
    \/ \E b \in Batches : FinishCleanup(b)
    \/ \E b \in Batches : Exit(b)
    \/ \E b \in Batches : Raise(b)
    \/ MainGet
    \/ MainTerminate
    \/ MainReturn

-----------------------------------------------------------------------------
(***************************************************************************)
(* The store: sources, relations and reads (data/flux/spec/source.py,      *)
(* data/flux/access.py, migrations/versions/ffe208ef6408)                  *)
(***************************************************************************)

\* Timestamps of stored and imported rows are 0..MaxTime.
MaxTime == 1

Times == 0..MaxTime

\* FluxSource, in the order of the enum.
Sources == <<"ARCHIVE", "LIVE">>

SourceSet == {Sources[i] : i \in DOMAIN Sources}

\* FluxSource.raw_resolution (1 s and 1 min, scaled to 1 and 2 ticks).
raw_resolution(source) == IF source = "ARCHIVE" THEN 1 ELSE 2

\* FluxSource.resolutions: the bucket sizes of the roll-ups, ascending
\* (10s, 1m, ... for ARCHIVE and 10m, ... for LIVE, scaled to 2, 4 and to 4).
resolutions(source) == IF source = "ARCHIVE" THEN <<2, 4>> ELSE <<4>>

\* FluxSource.select_relation: the coarsest roll-up whose bucket is not larger
\* than the interval; 0 stands for the raw table.
select_relation(source, interval) ==
    LET fitting == {k \in DOMAIN resolutions(source) : interval >= resolutions(source)[k]}
    IN  IF fitting = {} THEN 0 ELSE CHOOSE k \in fitting : \A j \in fitting : j <= k

\* time_bucket(size, time) of TimescaleDB, origin 0.
time_bucket(size, time) == (time \div size) * size

\* DateTimeRange.__contains__ and the SQL predicate start <= time AND time < end.
InRange(time, start, end) == start <= time /\ time < end

SetMin(S) == CHOOSE x \in S : \A y \in S : x <= y

SetMax(S) == CHOOSE x \in S : \A y \in S : y <= x

\* SUM(count) over a set of roll-up rows.
RECURSIVE SumCount(_)
SumCount(S) ==
    IF S = {} THEN 0
    ELSE LET x == CHOOSE y \in S : TRUE IN x.count + SumCount(S \ {x})

\* ORDER BY time of a set of <<time, flux>> rows with distinct times.
RECURSIVE OrderByTime(_)
OrderByTime(rows) ==
    IF rows = {} THEN <<>>
    ELSE LET first == CHOOSE r \in rows : \A q \in rows : r[1] <= q[1]
         IN  <<first>> \o OrderByTime(rows \ {first})

\* The continuous aggregate over the raw table (_create_aggregate with
\* is_parent_table): MIN(flux), MAX(flux), COUNT(flux) per bucket and channel.
AggregateOfTable(rows, size) ==
    { [channel |-> g[1], time |-> g[2],
       flux_min |-> SetMin({r[3] : r \in {q \in rows : q[1] = g[1] /\ time_bucket(size, q[2]) = g[2]}}),
       flux_max |-> SetMax({r[3] : r \in {q \in rows : q[1] = g[1] /\ time_bucket(size, q[2]) = g[2]}}),
       count |-> Cardinality({q \in rows : q[1] = g[1] /\ time_bucket(size, q[2]) = g[2]})]
      : g \in {<<r[1], time_bucket(size, r[2])>> : r \in rows} }

\* The continuous aggregate over the next finer roll-up: MIN(flux_min),
\* MAX(flux_max), SUM(count).
AggregateOfAggregate(rows, size) ==
    { [channel |-> g[1], time |-> g[2],
       flux_min |-> SetMin({r.flux_min : r \in {q \in rows : q.channel = g[1] /\ time_bucket(size, q.time) = g[2]}}),
       flux_max |-> SetMax({r.flux_max : r \in {q \in rows : q.channel = g[1] /\ time_bucket(size, q.time) = g[2]}}),
       count |-> SumCount({q \in rows : q.channel = g[1] /\ time_bucket(size, q.time) = g[2]})]
      : g \in {<<r.channel, time_bucket(size, r.time)>> : r \in rows} }

\* The defining query of the k-th roll-up of a source, over the current content
\* of its parent relation (the raw table for the first roll-up).
ViewQuery(source, k, tbl, agg) ==
    IF k = 1 THEN AggregateOfTable(tbl, resolutions(source)[k])
    ELSE AggregateOfAggregate(agg[k - 1], resolutions(source)[k])

\* CALL refresh_continuous_aggregate(view, window_start, window_end): the
\* buckets that lie completely inside the window are materialised anew, the
\* others keep their materialised rows.  The aggregates are not real-time.
RefreshNothing(source, k, tbl, agg, window_start, window_end) == agg[k]

RefreshAggregate(source, k, tbl, agg, window_start, window_end) ==
    LET size == resolutions(source)[k]
        inside(bucket) == window_start <= bucket /\ bucket + size <= window_end
    IN  {r \in agg[k] : ~inside(r.time)}
            \cup {r \in ViewQuery(source, k, tbl, agg) : inside(r.time)}

\* _select_flux: the rows of a channel in [start, end), raw if the interval is
\* not above the raw resolution, else MAX per time_bucket(interval) over the
\* relation select_relation picks.
SelectFlux(tbl, agg, source, channel, interval, start, end) ==
    IF interval <= raw_resolution(source)
    THEN OrderByTime({<<r[2], r[3]>> : r \in {q \in tbl : q[1] = channel /\ InRange(q[2], start, end)}})
    ELSE LET k == select_relation(source, interval)
             relation == IF k = 0
                         THEN {<<r[2], r[3]>> : r \in {q \in tbl : q[1] = channel}}
                         ELSE {<<r.time, r.flux_max>> : r \in {q \in agg[k] : q.channel = channel}}
             selected == {r \in relation : InRange(r[1], start, end)}
             buckets == {time_bucket(interval, r[1]) : r \in selected}
         IN  OrderByTime({<<b, SetMax({r[2] : r \in {q \in selected : time_bucket(interval, q[1]) = b}})>>
                            : b \in buckets})

-----------------------------------------------------------------------------
(***************************************************************************)
(* import_flux (data/flux/access.py)                                       *)
(***************************************************************************)

\* Flux values are positive integers (a fixed-point picture of the flux).  The
\* column type real keeps MantissaBits leading binary digits (24 in the
\* program); to_csv writes FormatDigits significant decimal digits ("%.9g").
MantissaBits == 3

FormatDigits == 2

Pow2(k) == IF k = 0 THEN 1 ELSE IF k = 1 THEN 2 ELSE IF k = 2 THEN 4 ELSE IF k = 3 THEN 8 ELSE 16

Pow10(k) == IF k <= 0 THEN 1 ELSE IF k = 1 THEN 10 ELSE IF k = 2 THEN 100 ELSE 1000

\* The values a real column (and a float32 series) can hold, up to 127.
RealValues == {m * Pow2(k) : m \in 0..(Pow2(MantissaBits) - 1), k \in 0..4}

Distance(a, b) == IF a <= b THEN b - a ELSE a - b

\* The cast of a decimal number to real: the nearest value the type can hold.
ToReal(x) ==
    CHOOSE r \in RealValues :
        /\ \A q \in RealValues : Distance(r, x) <= Distance(q, x)
        /\ \A q \in RealValues : Distance(q, x) = Distance(r, x) => r <= q

\* float_format with the given number of significant digits: the decimal number
\* the text of the value denotes.
FormatG(x, digits) ==
    LET unit == IF x < Pow10(digits) THEN 1
                ELSE IF x < Pow10(digits + 1) THEN 10 ELSE 100
    IN  ((x + unit \div 2) \div unit) * unit

FloatFormatLossy(x) == FormatG(x, FormatDigits - 1)

FloatFormat(x) == FormatG(x, FormatDigits)

\* The flux values of imported series: float32 numbers.
FluxValues == {12}

\* The missing value of a series (no flux value is negative).
NaN == -1

\* Series.dropna(): callers hand over NaN-free series, the call stays.
dropna(flux) == {r \in flux : r[2] # NaN}

\* Channels of the calls: a raw channel and its clean counterpart.
\* A channel is <<satellite, band, is_clean>>.
StoreChannels == {<<1, "long", FALSE>>, <<1, "long", TRUE>>}

\* Declared ranges [start, end) of the calls; start = end is the empty range.
DeclaredRanges == {r \in (0..(MaxTime + 1)) \X (0..(MaxTime + 1)) : r[1] <= r[2]}

\* The entries a call can carry for a channel: a declared range and a series of
\* rows with distinct timestamps.  Label slicing of the callers is inclusive, so
\* a row can sit exactly at the declared end.
Entries(channel, value) ==
    UNION { { [channel |-> channel, start |-> r[1], end |-> r[2],
               flux |-> {<<t, value>> : t \in T}]
              : T \in SUBSET {t \in Times : r[1] <= t /\ t <= r[2]} }
            : r \in DeclaredRanges }

\* A further entry of a call, for another channel: its declared range is the
\* first entry's extended by a tick on both sides (as the clean entry next to a
\* raw one), its series is empty or has a row at every timestamp up to the end.
FurtherEntries(first, value) ==
    UNION { { [channel |-> c, start |-> first.start - 1, end |-> first.end + 1,
               flux |-> {<<t, value>> : t \in T}]
              : T \in {{}, {t \in Times : first.start - 1 <= t /\ t <= first.end + 1}} }
            : c \in StoreChannels \ {first.channel} }

\* dict[FluxChannel, tuple[Flux, DateTimeRange]] in insertion order.
ChannelDicts(value) ==
    LET all == UNION {Entries(c, value) : c \in StoreChannels}
    IN  {<<>>} \cup {<<x>> : x \in all}
            \cup UNION {{<<x, y>> : y \in FurtherEntries(x, value)} : x \in all}

\* The range of the first entry only.
first_range(chs) == <<chs[1].start, chs[1].end>>

\* DateTimeRange.which_includes: min of the starts, max of the ends.
which_includes(chs) ==
    <<SetMin({chs[i].start : i \in DOMAIN chs}), SetMax({chs[i].end : i \in DOMAIN chs})>>

\* DELETE FROM table WHERE (channel AND start <= time AND time < end) OR ...
DeleteNothing(rows, chs) == rows

DeleteFlux(rows, chs) ==
    {r \in rows : ~\E i \in DOMAIN chs :
                      r[1] = chs[i].channel /\ InRange(r[2], chs[i].start, chs[i].end)}

\* "async with connection.transaction()": what the other connections see of
\* the table after a statement of the block, given the committed rows and the
\* rows as the block has them.  Without the block every statement commits.
autocommit(committed, working) == working

transaction(committed, working) == committed

\* The lines to_csv writes for an entry: <<channel, time, text of the flux>>.
CsvLines(entry) == {<<entry.channel, r[1], FloatFormat(r[2])>> : r \in dropna(entry.flux)}

\* "if index > 0: buffer.seek(0); buffer.truncate()"; copy_index counts from 1.
KeepBuffer(index, buf) == buf

ResetBuffer(index, buf) == IF index > 1 THEN {} ELSE buf

\* The primary key (satellite, band, is_clean, time) rejects a line of the COPY.
CopyConflict(rows, lines) ==
    \E l \in lines : \E r \in rows : r[1] = l[1] /\ r[2] = l[2]

\* COPY table FROM buffer.
CopyToTable(rows, lines) == rows \cup {<<l[1], l[2], ToReal(l[3])>> : l \in lines}

\* The table a call commits, from the table it found: the DELETE and then the
\* COPY of every non-empty series.
RECURSIVE CopyAll(_, _, _)
CopyAll(rows, chs, i) ==
    IF i > Len(chs) THEN rows
    ELSE CopyAll(IF chs[i].flux = {} THEN rows ELSE CopyToTable(rows, CsvLines(chs[i])),
                 chs, i + 1)

UpsertResult(rows, chs) == CopyAll(DeleteFlux(rows, chs), chs, 1)

\* A COPY of the call is rejected by the primary key.
RECURSIVE ConflictFrom(_, _, _)
ConflictFrom(rows, chs, i) ==
    IF i > Len(chs) THEN FALSE
    ELSE IF chs[i].flux = {} THEN ConflictFrom(rows, chs, i + 1)
    ELSE \/ CopyConflict(rows, CsvLines(chs[i]))
         \/ ConflictFrom(CopyToTable(rows, CsvLines(chs[i])), chs, i + 1)

UpsertConflicts(rows, chs) == ConflictFrom(DeleteFlux(rows, chs), chs, 1)

\* The refresh loop of a call from the k-th resolution on.
RECURSIVE RefreshLoop(_, _, _, _, _)
RefreshLoop(source, tbl, agg, time_range, k) ==
    IF k > Len(resolutions(source)) THEN agg
    ELSE LET size == resolutions(source)[k]
         IN  RefreshLoop(source, tbl,
                         [agg EXCEPT ![k] = RefreshAggregate(source, k, tbl, agg,
                                                             time_range[1] - size,
                                                             time_range[2] + size)],
                         time_range, k + 1)

StoreInit ==
    /\ table = [src \in SourceSet |-> {}]
    /\ aggs = [src \in SourceSet |-> [k \in DOMAIN resolutions(src) |-> {}]]
    /\ import_source \in SourceSet
    /\ imp_pc = "idle"
    /\ channels = <<>>
    /\ txn = {}
    /\ copy_index = 1
    /\ buffer = {}
    /\ refresh_index = 1
    /\ refreshed = <<>>
    /\ fail_reason = "none"
    /\ table_before = {}
    /\ repeat = FALSE

\* The part of a call up to connection.transaction(): an empty dict returns at
\* once, else SET ... and BEGIN.
Enter(chs, again) ==
    /\ channels' = chs
    /\ repeat' = again
    /\ table_before' = table[import_source]
    /\ refreshed' = <<>>
    /\ fail_reason' = "none"
    /\ copy_index' = 1
    /\ refresh_index' = 1
    /\ buffer' = {}
    /\ IF Len(chs) = 0
       THEN imp_pc' = "done" /\ txn' = {}
       ELSE imp_pc' = "delete" /\ txn' = table[import_source]
    /\ UNCHANGED <<table, aggs, import_source>>

\* import_flux(connection, source, channels) is called.
ImportCall ==
    /\ imp_pc = "idle"
    /\ \E value \in FluxValues : \E chs \in ChannelDicts(value) : Enter(chs, FALSE)
    /\ UNCHANGED nonStoreVars

\* The caller repeats the call with the same arguments.
ImportRepeat ==
    /\ imp_pc = "done"
    /\ ~repeat
    /\ Enter(channels, TRUE)
    /\ UNCHANGED nonStoreVars

\* await connection.execute(DELETE ...), inside the transaction.
ImportDelete ==
    /\ imp_pc = "delete"
    /\ txn' = DeleteFlux(txn, channels)
    /\ table' = [table EXCEPT ![import_source] = transaction(table[import_source], txn')]
    /\ imp_pc' = "copy"
    /\ UNCHANGED <<aggs, import_source, channels, copy_index, buffer, refresh_index,
                   refreshed, fail_reason, table_before, repeat>>
    /\ UNCHANGED nonStoreVars

\* One iteration of the insert loop: an empty series is skipped, else the
\* buffer is reset (after the first index), written and copied.  A rejected
\* COPY raises, which leaves the transaction block with a ROLLBACK.
ImportCopy ==
    /\ imp_pc = "copy"
    /\ copy_index <= Len(channels)
    /\ LET entry == channels[copy_index]
           lines == ResetBuffer(copy_index, buffer) \cup CsvLines(entry)
       IN  IF Cardinality(entry.flux) = 0
           THEN /\ copy_index' = copy_index + 1
                /\ UNCHANGED <<txn, buffer, imp_pc, fail_reason>>
           ELSE IF CopyConflict(txn, lines)
           THEN /\ imp_pc' = "failed"
                /\ fail_reason' = "conflict"
                /\ txn' = {}
                /\ buffer' = {}
                /\ UNCHANGED copy_index
           ELSE /\ txn' = CopyToTable(txn, lines)
                /\ buffer' = lines
                /\ copy_index' = copy_index + 1
                /\ UNCHANGED <<imp_pc, fail_reason>>
    /\ table' = [table EXCEPT ![import_source] =
                    IF imp_pc' = "failed" THEN table[import_source]
                    ELSE transaction(table[import_source], txn')]
    /\ UNCHANGED <<aggs, import_source, channels, refresh_index, refreshed,
                   table_before, repeat>>
    /\ UNCHANGED nonStoreVars

\* The insert loop is through: the buffer is closed and the transaction block
\* ends with COMMIT.
ImportCommit ==
    /\ imp_pc = "copy"
    /\ copy_index > Len(channels)
    /\ table' = [table EXCEPT ![import_source] = txn]
    /\ txn' = {}
    /\ buffer' = {}
    /\ imp_pc' = "refresh"
    /\ UNCHANGED <<aggs, import_source, channels, copy_index, refresh_index,
                   refreshed, fail_reason, table_before, repeat>>
    /\ UNCHANGED nonStoreVars

\* One iteration of the refresh loop: the window is which_includes of the
\* declared ranges, extended by the bucket size on both sides.
ImportRefresh ==
    /\ imp_pc = "refresh"
    /\ refresh_index <= Len(resolutions(import_source))
    /\ LET time_range == which_includes(channels)
           size == resolutions(import_source)[refresh_index]
           window == <<time_range[1] - size, time_range[2] + size>>
       IN  /\ aggs' = [aggs EXCEPT ![import_source][refresh_index] =
                          RefreshAggregate(import_source, refresh_index, table[import_source],
                                           aggs[import_source], window[1], window[2])]
           /\ refreshed' = Append(refreshed, <<refresh_index, window[1], window[2]>>)
    /\ refresh_index' = refresh_index + 1
    /\ UNCHANGED <<table, import_source, imp_pc, channels, txn, copy_index, buffer,
                   fail_reason, table_before, repeat>>
    /\ UNCHANGED nonStoreVars

\* The refresh loop is through: import_flux returns.
ImportDone ==
    /\ imp_pc = "refresh"
    /\ refresh_index > Len(resolutions(import_source))
    /\ imp_pc' = "done"
    /\ UNCHANGED <<table, aggs, import_source, channels, txn, copy_index, buffer,
                   refresh_index, refreshed, fail_reason, table_before, repeat>>
    /\ UNCHANGED nonStoreVars

\* The task is cancelled or the connection fails at an await inside the
\* transaction block: the block is left with a ROLLBACK and the call raises.
ImportCancel ==
    /\ imp_pc \in {"delete", "copy"}
    /\ imp_pc' = "failed"
    /\ fail_reason' = "cancelled"
    /\ txn' = {}
    /\ buffer' = {}
    /\ UNCHANGED <<table, aggs, import_source, channels, copy_index, refresh_index,
                   refreshed, table_before, repeat>>
    /\ UNCHANGED nonStoreVars

\* The process stops after the COMMIT and before the refresh loop is through:
\* the remaining refreshes are never issued.
ProcessStop ==
    /\ imp_pc = "refresh"
    /\ imp_pc' = "stopped"
    /\ fail_reason' = "stopped"
    /\ UNCHANGED <<table, aggs, import_source, channels, txn, copy_index, buffer,
                   refresh_index, refreshed, table_before, repeat>>
    /\ UNCHANGED nonStoreVars

\* The caller goes on after the call returned or raised.
ImportReturn ==
    /\ imp_pc \in {"done", "failed"}
    /\ imp_pc' = "idle"
    /\ channels' = <<>>
    /\ copy_index' = 1
    /\ refresh_index' = 1
    /\ buffer' = {}
    /\ refreshed' = <<>>
    /\ fail_reason' = "none"
    /\ table_before' = {}
    /\ repeat' = FALSE
    /\ UNCHANGED <<table, aggs, import_source, txn>>
    /\ UNCHANGED nonStoreVars

StoreNext ==
    \/ ImportCall
    \/ ImportRepeat
    \/ ImportDelete
    \/ ImportCopy
    \/ ImportCommit
    \/ ImportRefresh
    \/ ImportDone
    \/ ImportCancel
    \/ ProcessStop
    \/ ImportReturn

-----------------------------------------------------------------------------
(***************************************************************************)
(* prepare_flux_channels followed by import_flux                           *)
(* (importer/flux/_prepare.py, importer/flux/archive.py, live.py)          *)
(***************************************************************************)

\* Border sizes (9 h and 6 h in the program, scaled to 2 ticks and 1 tick).
CLEAN_BORDER_SIZE == 2

COMBINE_BORDER_SIZE == 1

SATELLITE_COMBINED_ID == 0

\* The importer hands over ranges [start, start + 1) with start in 0..MaxStart,
\* and rows inside the range.
MaxStart == 3

\* The flux value 1.0: clean_flux keeps 0 < flux < 1.
FluxOne == 128

\* The channels an importer delivers: raw channels of a satellite.
ProvidedChannel == <<1, "long", FALSE>>

\* dataclasses.replace(channel, is_clean=True)
CleanedChannel(channel) == <<channel[1], channel[2], TRUE>>

\* A range that is left as it is.
no_extend(range, delta) == range

\* DateTimeRange.extend
extend(range, delta) == <<range[1] - delta, range[2] + delta>>

\* flux[range.start:range.end]: label slicing includes both ends.
SliceHalfOpen(flux, range) == {r \in flux : range[1] <= r[1] /\ r[1] < range[2]}

Slice(flux, range) == {r \in flux : range[1] <= r[1] /\ r[1] <= range[2]}

\* fetch_flux: the rows of _select_flux as a series.
fetch_flux(tbl, agg, source, channel, interval, start, end) ==
    LET records == SelectFlux(tbl, agg, source, channel, interval, start, end)
    IN  {records[i] : i \in DOMAIN records}

\* _extend_flux: the provided flux with the stored rows before and after the
\* original range, up to the target range.
_extend_flux(tbl, agg, source, channel, flux, original_range, target_range) ==
    (IF target_range[1] < original_range[1]
     THEN fetch_flux(tbl, agg, source, channel, 0, target_range[1], original_range[1])
     ELSE {})
    \cup flux
    \cup (IF target_range[2] > original_range[2]
          THEN fetch_flux(tbl, agg, source, channel, 0, original_range[2], target_range[2])
          ELSE {})

\* clean_flux: the results the cleaner can give for a series.  Values outside
\* (0, 1) are removed, then denoising and outlier removal drop further rows.
clean_flux(flux) == SUBSET {r \in flux : 0 < r[2] /\ r[2] < FluxOne}

\* The range _clean declares for the cleaned channel.
NoBorder(time_range) == time_range

RecleanRange(time_range) == extend(time_range, CLEAN_BORDER_SIZE)

\* _clean: the entries it can return for a raw channel.
_clean(tbl, agg, source, channel, flux, time_range) ==
    LET reclean_range == RecleanRange(time_range)
        fetch_range == extend(reclean_range, CLEAN_BORDER_SIZE)
        flux_all == _extend_flux(tbl, agg, source, channel, flux, time_range, fetch_range)
    IN  { [channel |-> CleanedChannel(channel), start |-> reclean_range[1],
           end |-> reclean_range[2], flux |-> Slice(flux_clean, reclean_range)]
          : flux_clean \in clean_flux(flux_all) }

\* FrequencyBand, in the order of the enum.
Bands == <<"short", "long">>

\* The timestamps of a series.
TimesOf(flux) == {r[1] : r \in flux}

\* The value a series has at one of its timestamps.
ValueAt(flux, t) == (CHOOSE r \in flux : r[1] = t)[2]

\* channel_counts_series / channel_counts_series.max(), set to zero below
\* _MIN_DATA_WEIGHT_THRESHOLD (0.25); kept as a multiple of 1 / max.
ChannelWeight(count, max_count) ==
    IF max_count > 0 /\ 4 * count >= max_count THEN count ELSE 0

\* One column of merged_df.loc[combined_index].interpolate(method='time')
\* .ffill().bfill() at t: a column without a value in the index stays NaN.
Interpolated(flux, index, t) ==
    LET known == TimesOf(flux) \cap index
        before == {u \in known : u <= t}
        after == {u \in known : u >= t}
    IN  IF known = {} THEN NaN
        ELSE IF before = {} THEN ValueAt(flux, SetMin(after))
        ELSE IF after = {} THEN ValueAt(flux, SetMax(before))
        ELSE LET a == SetMax(before)
                 b == SetMin(after)
             IN  IF a = b THEN ValueAt(flux, a)
                 ELSE ValueAt(flux, a)
                      + ((ValueAt(flux, b) - ValueAt(flux, a)) * (t - a)) \div (b - a)

\* np.sum(x * weights, axis=1) over the columns from i on.
RECURSIVE WeightedSum(_, _, _)
WeightedSum(values, weights, i) ==
    IF i > Len(values) THEN 0
    ELSE values[i] * weights[i] + WeightedSum(values, weights, i + 1)

\* NaN times any weight, also zero, is NaN, and so is a sum with a NaN in it.
WeightedMean(values, weights) ==
    IF \E i \in DOMAIN values : values[i] = NaN THEN NaN
    ELSE WeightedSum(values, weights, 1)
         \div WeightedSum([i \in DOMAIN values |-> 1], weights, 1)

\* The weights _combine_band gives the satellites of a band whose rows lie
\* closer together than _GAP_THRESHOLD_NS and inside one smoothing window:
\* there is one segment, and smoothing leaves its weights as they are.  The
\* raw version is weighted by the clean rows between its first and last row
\* unless there are none.
SegmentWeights(fluxes, clean_fluxes) ==
    LET index == UNION {TimesOf(fluxes[i]) : i \in DOMAIN fluxes}
        inside == [i \in DOMAIN clean_fluxes |->
                     {r \in clean_fluxes[i] : index # {} /\ SetMin(index) <= r[1]
                                                /\ r[1] <= SetMax(index)}]
        reference == IF \A i \in DOMAIN inside : inside[i] = {} THEN fluxes ELSE inside
        counts == [i \in DOMAIN reference |-> Cardinality(reference[i])]
        max_count == SetMax({counts[i] : i \in DOMAIN counts})
    IN  [i \in DOMAIN counts |-> ChannelWeight(counts[i], max_count)]

\* The rows that are not pure interpolations: a satellite with weight has a
\* value there.
CombinedIndex(fluxes, weights) ==
    {t \in UNION {TimesOf(fluxes[i]) : i \in DOMAIN fluxes} :
        \E i \in DOMAIN fluxes : weights[i] > 0 /\ t \in TimesOf(fluxes[i])}

\* The combined series of one version (raw or clean) of a band.
CombineVersion(fluxes, clean_fluxes) ==
    LET weights == SegmentWeights(fluxes, clean_fluxes)
        index == CombinedIndex(fluxes, weights)
    IN  {<<t, WeightedMean([i \in DOMAIN fluxes |-> Interpolated(fluxes[i], index, t)], weights)>>
          : t \in index}

\* The raw channels of band_channels, a set of [channel, flux], by satellite.
RECURSIVE RawOrder(_)
RawOrder(raw) ==
    IF raw = {} THEN <<>>
    ELSE LET first == CHOOSE c \in raw : \A d \in raw : c.channel[1] <= d.channel[1]
         IN  <<first>> \o RawOrder(raw \ {first})

\* _combine_band raises ValueError: the band has a channel without its raw or
\* its clean counterpart.
MissingPair(band_channels) ==
    LET raw == {c \in band_channels : ~c.channel[3]}
    IN  \/ 2 * Cardinality(raw) # Cardinality(band_channels)
        \/ \E c \in raw : \A d \in band_channels : d.channel # CleanedChannel(c.channel)

\* _combine_band: one satellite's channels are handed on as the combined ones,
\* clean first; several satellites are combined, raw first.
_combine_band(band, band_channels) ==
    LET raw == RawOrder({c \in band_channels : ~c.channel[3]})
        clean == [i \in DOMAIN raw |->
                    CHOOSE d \in band_channels : d.channel = CleanedChannel(raw[i].channel)]
        raw_fluxes == [i \in DOMAIN raw |-> raw[i].flux]
        clean_fluxes == [i \in DOMAIN clean |-> clean[i].flux]
    IN  IF Len(raw) = 1
        THEN <<[channel |-> <<SATELLITE_COMBINED_ID, band, TRUE>>, flux |-> clean[1].flux],
               [channel |-> <<SATELLITE_COMBINED_ID, band, FALSE>>, flux |-> raw[1].flux]>>
        ELSE <<[channel |-> <<SATELLITE_COMBINED_ID, band, FALSE>>,
                flux |-> CombineVersion(raw_fluxes, clean_fluxes)],
               [channel |-> <<SATELLITE_COMBINED_ID, band, TRUE>>,
                flux |-> CombineVersion(clean_fluxes, clean_fluxes)]>>

\* fetch_available_channels: SELECT DISTINCT satellite, band, is_clean of the
\* rows with start <= time < end.
fetch_available_channels(tbl, time_range) ==
    {r[1] : r \in {q \in tbl : InRange(q[2], time_range[1], time_range[2])}}

\* The input_channels of _combine: the provided satellite channels extended to
\* the fetch range, and the stored satellite channels with a row in the
\* recombine range.
InputChannels(tbl, agg, source, chs) ==
    LET provided_range == which_includes(chs)
        recombine_range == extend(provided_range, COMBINE_BORDER_SIZE)
        fetch_range == extend(recombine_range, COMBINE_BORDER_SIZE)
        provided == {chs[i].channel : i \in DOMAIN chs}
    IN  { [channel |-> chs[i].channel,
           flux |-> _extend_flux(tbl, agg, source, chs[i].channel, chs[i].flux,
                                 <<chs[i].start, chs[i].end>>, fetch_range)]
          : i \in {j \in DOMAIN chs : chs[j].channel[1] # SATELLITE_COMBINED_ID} }
        \cup
        { [channel |-> c,
           flux |-> fetch_flux(tbl, agg, source, c, 0, fetch_range[1], fetch_range[2])]
          : c \in {d \in fetch_available_channels(tbl, recombine_range) :
                     d[1] # SATELLITE_COMBINED_ID /\ d \notin provided} }

\* combine_flux_channels groups the channels by band.
BandChannels(input_channels, band) == {c \in input_channels : c.channel[2] = band}

\* _combine raises the ValueError of _combine_band.
CombineRaises(tbl, agg, source, chs) ==
    \E i \in DOMAIN Bands :
        LET band_channels == BandChannels(InputChannels(tbl, agg, source, chs), Bands[i])
        IN  band_channels # {} /\ MissingPair(band_channels)

\* _combine: the entries of the combined channels of every band with channels,
\* cut to the recombine range.
RECURSIVE CombineBands(_, _, _)
CombineBands(input_channels, recombine_range, i) ==
    IF i > Len(Bands) THEN <<>>
    ELSE LET band_channels == BandChannels(input_channels, Bands[i])
             combined == _combine_band(Bands[i], band_channels)
         IN  (IF band_channels = {} THEN <<>>
              ELSE [k \in DOMAIN combined |->
                      [channel |-> combined[k].channel, start |-> recombine_range[1],
                       end |-> recombine_range[2],
                       flux |-> Slice(combined[k].flux, recombine_range)]])
             \o CombineBands(input_channels, recombine_range, i + 1)

_combine(tbl, agg, source, chs) ==
    CombineBands(InputChannels(tbl, agg, source, chs),
                 extend(which_includes(chs), COMBINE_BORDER_SIZE), 1)

PrepInit ==
    /\ prep_pc = "idle"
    /\ prep_range = <<0, 0>>
    /\ prep_channels = <<>>

\* The importer calls prepare_flux_channels(executor, pool, source, channels,
\* time_range): an empty dict is returned as it is, else every channel gets the
\* time range.
PrepareCall ==
    /\ prep_pc = "idle"
    /\ imp_pc = "idle"
    /\ \E start \in 0..MaxStart : \E provided \in BOOLEAN : \E T \in SUBSET {start} :
          /\ prep_range' = <<start, start + 1>>
          /\ IF provided
             THEN /\ prep_channels' = <<[channel |-> ProvidedChannel, start |-> start,
                                         end |-> start + 1,
                                         flux |-> {<<t, v>> : t \in T, v \in FluxValues}]>>
                  /\ prep_pc' = "clean"
             ELSE /\ T = {}
                  /\ prep_channels' = <<>>
                  /\ prep_pc' = "prepared"
    /\ UNCHANGED <<pipeVars, storeVars, fetchVars, liveVars, auxVars>>

\* The clean tasks: every channel without a cleaned version in the dict is
\* cleaned and the result is stored under the cleaned channel.
PrepareClean ==
    /\ prep_pc = "clean"
    /\ \E cleaned \in _clean(table[import_source], aggs[import_source], import_source,
                            prep_channels[1].channel, prep_channels[1].flux, prep_range) :
          prep_channels' = Append(prep_channels, cleaned)
    /\ prep_pc' = "combine"
    /\ UNCHANGED <<prep_range, pipeVars, storeVars, fetchVars, liveVars, auxVars>>

\* channels.update(await _combine(...)); return channels.
PrepareCombine ==
    /\ prep_pc = "combine"
    /\ ~CombineRaises(table[import_source], aggs[import_source], import_source, prep_channels)
    /\ prep_channels' = prep_channels \o _combine(table[import_source], aggs[import_source],
                                                  import_source, prep_channels)
    /\ prep_pc' = "prepared"
    /\ UNCHANGED <<prep_range, pipeVars, storeVars, fetchVars, liveVars, auxVars>>

\* A clean task or the combination raises, or the importer is cancelled:
\* nothing is imported.
PrepareRaise ==
    /\ prep_pc \in {"clean", "combine"}
    /\ prep_pc' = "idle"
    /\ prep_range' = <<0, 0>>
    /\ prep_channels' = <<>>
    /\ UNCHANGED <<pipeVars, storeVars, fetchVars, liveVars, auxVars>>

\* await import_flux(connection, source, prepared_channels)
PrepareImport ==
    /\ prep_pc = "prepared"
    /\ imp_pc = "idle"
    /\ Enter(prep_channels, FALSE)
    /\ prep_pc' = "importing"
    /\ UNCHANGED <<prep_range, prep_channels, pipeVars, fetchVars, liveVars, auxVars>>

\* import_flux returned or raised: the importer goes on with its next range.
PrepareReturn ==
    /\ prep_pc = "importing"
    /\ imp_pc \in {"done", "failed"}
    /\ imp_pc' = "idle"
    /\ channels' = <<>>
    /\ copy_index' = 1
    /\ refresh_index' = 1
    /\ buffer' = {}
    /\ refreshed' = <<>>
    /\ fail_reason' = "none"
    /\ table_before' = {}
    /\ repeat' = FALSE
    /\ prep_pc' = "idle"
    /\ prep_range' = <<0, 0>>
    /\ prep_channels' = <<>>
    /\ UNCHANGED <<table, aggs, import_source, txn, pipeVars, fetchVars, liveVars, auxVars>>

PrepNext ==
    \/ PrepareCall
    \/ PrepareClean
    \/ PrepareCombine
    \/ PrepareRaise
    \/ PrepareImport
    \/ ImportDelete
    \/ ImportCopy
    \/ ImportCommit
    \/ ImportRefresh
    \/ ImportDone
    \/ ImportCancel
    \/ ProcessStop
    \/ PrepareReturn

-----------------------------------------------------------------------------
(***************************************************************************)
(* The query fetcher (data/flux/fetcher.py, main.py)                       *)
(***************************************************************************)

\* Timestamps of the stored rows the fetcher serves are 0..MaxFetchTime.
MaxFetchTime == 9

\* The channel the API serves.
_DEFAULT_CHANNEL == <<SATELLITE_COMBINED_ID, "long", TRUE>>

\* FluxFetcher._SOURCES, from highest to lowest priority.
_SOURCES == <<"ARCHIVE", "LIVE">>

\* The rows of a source are told apart by their flux.
SourceFlux(source) == IF source = "ARCHIVE" THEN 12 ELSE 14

\* The stored rows of a source: none, or a row every raw_resolution(source)
\* ticks from a first timestamp up to a last one.
StoredRows(source) ==
    {{}} \cup { {<<_DEFAULT_CHANNEL, t, SourceFlux(source)>>
                  : t \in {u \in lo..hi : (u - lo) % raw_resolution(source) = 0}}
                : lo \in 0..MaxFetchTime, hi \in 0..MaxFetchTime }

\* The roll-ups of a source, materialised from its raw rows.
Materialized(source, rows) ==
    LET first == AggregateOfTable(rows, resolutions(source)[1])
    IN  IF Len(resolutions(source)) = 1 THEN <<first>>
        ELSE <<first, AggregateOfAggregate(first, resolutions(source)[2])>>

\* The intervals of the requests: at the raw resolution of both sources, at a
\* roll-up of ARCHIVE only, between the roll-ups, at a roll-up of both.
Intervals == {1, 2, 3, 4}

\* fetch_flux_timestamp_range: SELECT MIN(time), MAX(time), None without rows.
fetch_flux_timestamp_range(rows) ==
    IF rows = {} THEN <<>>
    ELSE <<SetMin({r[2] : r \in rows}), SetMax({r[2] : r \in rows})>>

\* The loop of _fetch_sections from the i-th source on.
RECURSIVE WalkSources(_, _, _, _, _)
WalkSources(ranges, i, section_start, end, issued) ==
    IF i > Len(_SOURCES) THEN issued
    ELSE LET source == _SOURCES[i]
             source_range == ranges[source]
         IN  IF source_range = <<>> \/ source_range[2] < section_start
             THEN WalkSources(ranges, i + 1, section_start, end, issued)
             ELSE IF end < source_range[1]
             THEN issued
             ELSE LET section_end == IF source_range[2] <= end THEN source_range[2] ELSE end
                      more == Append(issued, [source |-> source, start |-> section_start,
                                              end |-> section_end])
                  IN  IF end <= source_range[2] THEN more
                      ELSE WalkSources(ranges, i + 1, section_end, end, more)

\* _fetch_sections: the section fetches it issues.
_fetch_sections(ranges, start, end) == WalkSources(ranges, 1, start, end, <<>>)

\* pd.concat(sections) / itertools.chain.from_iterable(sections)
RECURSIVE Concat(_)
Concat(seqs) == IF seqs = <<>> THEN <<>> ELSE Head(seqs) \o Concat(Tail(seqs))

\* The rows of one section fetch.
SectionRows(section, interval) ==
    SelectFlux(table[section.source], aggs[section.source], section.source, _DEFAULT_CHANNEL,
               interval, section.start, section.end)

FetchInit ==
    /\ _ranges = [src \in SourceSet |-> <<>>]
    /\ fetch_pc = "idle"
    /\ request = <<0, 0, 1>>
    /\ sections = <<>>
    /\ result = <<>>

\* FluxFetcher.update, run every 10 s: the ranges of the sources with rows.
Update ==
    /\ fetch_pc = "idle"
    /\ _ranges' = [src \in SourceSet |-> fetch_flux_timestamp_range(table[src])]
    /\ UNCHANGED <<fetch_pc, request, sections, result, nonFetchVars>>

\* fetch / fetch_raw is called (get_flux rejects start > end): _fetch_sections
\* issues the section fetches.
Fetch ==
    /\ fetch_pc = "idle"
    /\ \E start \in 0..(MaxFetchTime + 1) : \E end \in start..(MaxFetchTime + 1) :
       \E interval \in Intervals :
          /\ request' = <<start, end, interval>>
          /\ sections' = _fetch_sections(_ranges, start, end)
    /\ fetch_pc' = "gather"
    /\ result' = <<>>
    /\ UNCHANGED <<_ranges, nonFetchVars>>

\* asyncio.gather returns the results of all sections; they are concatenated.
Gather ==
    /\ fetch_pc = "gather"
    /\ result' = Concat([i \in DOMAIN sections |-> SectionRows(sections[i], request[3])])
    /\ fetch_pc' = "done"
    /\ UNCHANGED <<_ranges, request, sections, nonFetchVars>>

\* A section fetch times out or fails: asyncio.gather raises, no rows are
\* returned (get_flux answers 503 on a timeout).
SectionFails ==
    /\ fetch_pc = "gather"
    /\ Len(sections) > 0
    /\ fetch_pc' = "failed"
    /\ UNCHANGED <<_ranges, request, sections, result, nonFetchVars>>

\* The caller has its answer.
FetchReturn ==
    /\ fetch_pc \in {"done", "failed"}
    /\ fetch_pc' = "idle"
    /\ request' = <<0, 0, 1>>
    /\ sections' = <<>>
    /\ result' = <<>>
    /\ UNCHANGED <<_ranges, nonFetchVars>>

FetchNext ==
    \/ Update
    \/ Fetch
    \/ Gather
    \/ SectionFails
    \/ FetchReturn

-----------------------------------------------------------------------------
(***************************************************************************)
(* The live importer and the importer supervisor                           *)
(* (importer/flux/live.py, importer/flux/_base.py)                         *)
(***************************************************************************)

\* The clock runs from 0 to MaxNow.
MaxNow == 2

\* The satellite of a feed without a record of the band's energy.
None == -1

_FREQUENCY_TO_ENERGY(band) == IF band = "short" THEN "0.05-0.4nm" ELSE "0.1-0.8nm"

\* The records a feed can hold at a time: measurements of the last two ticks,
\* of one of two satellites, with a flux inside (0, 1).
Records(now) ==
    [satellite : {1, 2}, energy : {"0.05-0.4nm", "0.1-0.8nm"},
     time_tag : {t \in {now - 2, now - 1} : t >= 0}, flux : {12}]

\* The newest record of every energy in the feed names satellite 1, the
\* primary satellite, or is older than the resume point: the rows an iteration
\* imports are rows of satellite 1.
PrimaryIsNewest(json, start) ==
    \A i \in DOMAIN json :
        \/ json[i].satellite = 1
        \/ \E j \in DOMAIN json : j > i /\ json[j].energy = json[i].energy
        \/ json[i].time_tag < start

\* The JSON of the primary feed: at most two records from oldest to newest.
FeedJson(now, start) ==
    {<<>>} \cup {json \in {<<r>> : r \in Records(now)} : PrimaryIsNewest(json, start)}
           \cup {p \in Records(now) \X Records(now) :
                    /\ p[1].time_tag <= p[2].time_tag
                    /\ p[1] # p[2]
                    /\ ~(p[1].energy = p[2].energy /\ p[1].time_tag = p[2].time_tag
                         /\ p[1].satellite = p[2].satellite)
                    /\ PrimaryIsNewest(p, start)}

\* The JSON of the secondary feed: the secondary satellite delivers nothing.
SecondaryJson(now) == {<<>>}

\* fetch_last_flux_timestamp: the last timestamp of a satellite's row, None
\* without one.
fetch_last_flux_timestamp(rows) ==
    LET times == {r[2] : r \in {q \in rows : q[1][1] # SATELLITE_COMBINED_ID}}
    IN  IF times = {} THEN None ELSE SetMax(times)

\* start_import: the start of the iteration (a tick stands for the millisecond).
ResumeMax(last_timestamp, configured) ==
    IF last_timestamp = None \/ last_timestamp + 1 < configured
    THEN configured ELSE last_timestamp + 1

ResumeLast(last_timestamp, configured) ==
    IF last_timestamp = None THEN configured ELSE last_timestamp + 1

\* _parse of _from_live_json from the record at position i down to the oldest.
RECURSIVE ParseFrom(_, _, _, _, _, _)
ParseFrom(json, energy, start, i, satellite, rows) ==
    IF i = 0 THEN [raised |-> FALSE, satellite |-> satellite, flux |-> rows]
    ELSE LET record == json[i]
             seen == IF satellite = None THEN record.satellite ELSE satellite
         IN  IF record.energy # energy
             THEN ParseFrom(json, energy, start, i - 1, satellite, rows)
             ELSE IF satellite # None /\ record.satellite # satellite
             THEN [raised |-> TRUE, satellite |-> satellite, flux |-> rows]
             ELSE IF record.time_tag < start
             THEN [raised |-> FALSE, satellite |-> seen, flux |-> rows]
             ELSE IF ~(0 < record.flux /\ record.flux < FluxOne)
             THEN ParseFrom(json, energy, start, i - 1, seen, rows)
             ELSE ParseFrom(json, energy, start, i - 1, seen,
                            rows \cup {<<record.time_tag, record.flux>>})

\* A parser without the satellite check.
ParseUnchecked(json, frequency, start) ==
    [ParseFrom(json, _FREQUENCY_TO_ENERGY(frequency), start, Len(json), None, {})
        EXCEPT !.raised = FALSE]

\* _from_live_json(json, frequency, start)
_from_live_json(json, frequency, start) ==
    ParseFrom(json, _FREQUENCY_TO_ENERGY(frequency), start, Len(json), None, {})

\* channels[key] = flux on a dict kept as a sequence of [channel, flux].
DictSet(dict, key, flux) ==
    IF \E i \in DOMAIN dict : dict[i].channel = key
    THEN [i \in DOMAIN dict |-> IF dict[i].channel = key
                                THEN [channel |-> key, flux |-> flux] ELSE dict[i]]
    ELSE Append(dict, [channel |-> key, flux |-> flux])

\* "if flux.empty or satellite is None: continue"
SkipEmpty(parsed) == parsed.flux = {} \/ parsed.satellite = None

KeepEmpty(parsed) == parsed.satellite = None

\* The loop over the bands for one feed.
RECURSIVE AddBands(_, _, _, _)
AddBands(dict, json, start, i) ==
    IF i > Len(Bands) THEN dict
    ELSE LET parsed == _from_live_json(json, Bands[i], start)
         IN  AddBands(IF SkipEmpty(parsed) THEN dict
                      ELSE DictSet(dict, <<parsed.satellite, Bands[i], FALSE>>, parsed.flux),
                      json, start, i + 1)

\* A band of the feed makes _from_live_json raise.
FeedRaises(json, start) ==
    \E i \in DOMAIN Bands : _from_live_json(json, Bands[i], start).raised

\* "channels = {channel: (flux, time_range) ...}"
WithRange(dict, time_range) ==
    [i \in DOMAIN dict |-> [channel |-> dict[i].channel, start |-> time_range[1],
                            end |-> time_range[2], flux |-> dict[i].flux]]

\* The results the clean tasks of prepare_flux_channels can give, for the
\* channels from the i-th on: channels with a cleaned version are skipped.
RECURSIVE CleanTasks(_, _, _, _, _)
CleanTasks(tbl, agg, source, chs, i) ==
    IF i > Len(chs) THEN {<<>>}
    ELSE IF \E j \in DOMAIN chs : chs[j].channel = CleanedChannel(chs[i].channel)
    THEN CleanTasks(tbl, agg, source, chs, i + 1)
    ELSE {<<c>> \o rest : c \in _clean(tbl, agg, source, chs[i].channel, chs[i].flux,
                                        <<chs[i].start, chs[i].end>>),
                          rest \in CleanTasks(tbl, agg, source, chs, i + 1)}

\* The clock after a wait.
Later(now) == IF now < MaxNow THEN now + 1 ELSE now

\* The importer process is not running.
LiveOff ==
    /\ live_pc = "off"
    /\ import_start = 0
    /\ live_now = 0
    /\ live_start = 0
    /\ feeds = <<>>
    /\ live_channels = <<>>
    /\ imported = <<>>

\* ImporterProcess starts _start_async, which runs start_import.
LiveInit ==
    /\ live_pc = "start"
    /\ import_start \in {0, 1}
    /\ live_now = 1
    /\ live_start = 0
    /\ feeds = <<>>
    /\ live_channels = <<>>
    /\ imported = <<>>

\* start_import, top of the loop: the start of the iteration.
LiveStart ==
    /\ live_pc = "start"
    /\ live_start' = ResumeLast(fetch_last_flux_timestamp(table["LIVE"]), import_start)
    /\ live_pc' = "import"
    /\ UNCHANGED <<import_start, live_now, feeds, live_channels, imported, pipeVars, storeVars, prepVars, fetchVars, auxVars>>

\* _import_from: the primary and the secondary feed are fetched and parsed for
\* every band, the channels are prepared over [start, now] and handed to
\* import_flux.  An exception of the parser, of the combiner or of import_flux
\* leaves _import_from before anything is written.
LiveImportFrom ==
    /\ live_pc = "import"
    /\ \E primary \in FeedJson(live_now, live_start) : \E secondary \in SecondaryJson(live_now) :
       LET dict == AddBands(AddBands(<<>>, primary, live_start, 1), secondary, live_start, 1)
           chs == WithRange(dict, <<live_start, live_now>>)
       IN  IF FeedRaises(primary, live_start)
           THEN /\ feeds' = <<primary>>
                /\ live_channels' = <<>>
                /\ live_pc' = "crashed"
                /\ UNCHANGED <<table, aggs, imported>>
           ELSE IF FeedRaises(secondary, live_start)
           THEN /\ feeds' = <<primary, secondary>>
                /\ live_channels' = AddBands(<<>>, primary, live_start, 1)
                /\ live_pc' = "crashed"
                /\ UNCHANGED <<table, aggs, imported>>
           ELSE /\ feeds' = <<primary, secondary>>
                /\ live_channels' = dict
                /\ IF chs = <<>>
                   THEN /\ live_pc' = "sleep"
                        /\ UNCHANGED <<table, aggs, imported>>
                   ELSE \E cleaned \in CleanTasks(table["LIVE"], aggs["LIVE"], "LIVE", chs, 1) :
                           LET all == chs \o cleaned
                               prepared == all \o _combine(table["LIVE"], aggs["LIVE"],
                                                           "LIVE", all)
                           IN  IF \/ CombineRaises(table["LIVE"], aggs["LIVE"], "LIVE", all)
                                  \/ UpsertConflicts(table["LIVE"], prepared)
                               THEN /\ live_pc' = "crashed"
                                    /\ UNCHANGED <<table, aggs, imported>>
                               ELSE /\ table' = [table EXCEPT
                                                   !["LIVE"] = UpsertResult(@, prepared)]
                                    /\ aggs' = [aggs EXCEPT !["LIVE"] =
                                                  RefreshLoop("LIVE", table'["LIVE"], @,
                                                              which_includes(prepared), 1)]
                                    /\ imported' = prepared
                                    /\ live_pc' = "sleep"
    /\ UNCHANGED <<import_start, live_now, live_start,
                   import_source, imp_pc, channels, txn, copy_index, buffer, refresh_index,
                   refreshed, fail_reason, table_before, repeat,
                   pipeVars, prepVars, fetchVars, auxVars>>

\* start_import: asyncio.sleep(wait_delta), then the next iteration.
LiveSleep ==
    /\ live_pc = "sleep"
    /\ live_now' = Later(live_now)
    /\ live_pc' = "start"
    /\ feeds' = <<>>
    /\ live_channels' = <<>>
    /\ imported' = <<>>
    /\ UNCHANGED <<import_start, live_start, pipeVars, storeVars, prepVars, fetchVars, auxVars>>

\* An await of the iteration raises (the database, the network): the
\* exception leaves start_import.
LiveRaise ==
    /\ live_pc \in {"start", "import"}
    /\ live_pc' = "crashed"
    /\ feeds' = <<>>
    /\ live_channels' = <<>>
    /\ UNCHANGED <<import_start, live_now, live_start, imported,
                   pipeVars, storeVars, prepVars, fetchVars, auxVars>>

\* _start_async, "except:": the exception is logged, the process sleeps
\* _RESTART_DELAY and the loop runs start() again.
LiveRestart ==
    /\ live_pc = "crashed"
    /\ live_now' = Later(live_now)
    /\ live_pc' = "start"
    /\ feeds' = <<>>
    /\ live_channels' = <<>>
    /\ imported' = <<>>
    /\ UNCHANGED <<import_start, live_start, pipeVars, storeVars, prepVars, fetchVars, auxVars>>

\* _start_async, "except KeyboardInterrupt": it is raised again and the loop
\* ends.
LiveInterrupt ==
    /\ live_pc \in {"start", "import", "sleep", "crashed"}
    /\ live_pc' = "interrupted"
    /\ live_start' = 0
    /\ feeds' = <<>>
    /\ live_channels' = <<>>
    /\ imported' = <<>>
    /\ UNCHANGED <<import_start, live_now, pipeVars, storeVars, prepVars, fetchVars, auxVars>>

\* The server is started again: config.IMPORT_START is read anew from the
\* environment (without a value it is 30 days before the start of the process).
LiveRedeploy ==
    /\ live_pc = "interrupted"
    /\ live_now' = Later(live_now)
    /\ import_start' \in {0, live_now' + 1}
    /\ live_pc' = "start"
    /\ UNCHANGED <<live_start, feeds, live_channels, imported,
                   pipeVars, storeVars, prepVars, fetchVars, auxVars>>

LiveNext ==
    \/ LiveStart
    \/ LiveImportFrom
    \/ LiveSleep
    \/ LiveRaise
    \/ LiveRestart
    \/ LiveInterrupt
    \/ LiveRedeploy

-----------------------------------------------------------------------------
(***************************************************************************)
(* The download stage of an archive batch (importer/flux/archive.py)       *)
(***************************************************************************)

\* The files the search found per satellite of the batch: file f holds the
\* measurements of tick f - 1 in both bands.
MaxFiles == 2

_MAX_DOWNLOAD_TRIES == 5

\* _DOWNLOAD_BACKOFF, in seconds.
_DOWNLOAD_BACKOFF == 30

\* A wait that does not grow with the tries.
FlatBackoff(i) == _DOWNLOAD_BACKOFF

\* wait = _DOWNLOAD_BACKOFF * (i_try + 1), with i_try counted from 0.
Backoff(i) == _DOWNLOAD_BACKOFF * (i + 1)

BatchSatellites == {1, 2}

BatchRange == <<0, MaxFiles>>

\* search_results[satellite]
SearchResults(satellite) == IF satellite = 1 THEN 1..MaxFiles ELSE {1}

\* A download that drops the satellite once the tries are used up.
SkipOnErrors(fetched, results) == IF fetched = results THEN fetched ELSE {}

\* "return files" of _download_results: the result of the last Fido.fetch, with
\* or without errors.
ReturnedFiles(fetched, results) == fetched

\* _load_channels(logger, satellite, time_range, files): without a loadable
\* file the satellite gives no channel; else one raw channel per band.
_load_channels(satellite, fs) ==
    IF fs = {} THEN <<>>
    ELSE [i \in DOMAIN Bands |->
            [channel |-> <<satellite, Bands[i], FALSE>>,
             flux |-> {<<f - 1, 12>> : f \in fs}]]

DownloadOff ==
    /\ batch_pc = "off"
    /\ dl_pc = [satellite \in BatchSatellites |-> "off"]
    /\ i_try = [satellite \in BatchSatellites |-> 0]
    /\ slept = [satellite \in BatchSatellites |-> <<>>]
    /\ files = [satellite \in BatchSatellites |-> {}]
    /\ error_log = {}
    /\ batch_channels = <<>>
    /\ batch_imported = <<>>

\* The search found files of both satellites and last_download_event is set.
DownloadInit ==
    /\ batch_pc = "download"
    /\ dl_pc = [satellite \in BatchSatellites |-> "download"]
    /\ i_try = [satellite \in BatchSatellites |-> 0]
    /\ slept = [satellite \in BatchSatellites |-> <<>>]
    /\ files = [satellite \in BatchSatellites |-> {}]
    /\ error_log = {}
    /\ batch_channels = <<>>
    /\ batch_imported = <<>>

nonDownloadVars == <<pipeVars, prepVars, fetchVars, liveVars, combineVars, cleanVars,
                     refreshVars, lateVars>>

\* One turn of the loop of _download_results: Fido.fetch delivers some of the
\* files; without errors the loop ends, before the last try it warns and backs
\* off, after the last try it logs the error and the files are returned.
DownloadTry(satellite) ==
    /\ batch_pc = "download"
    /\ dl_pc[satellite] = "download"
    /\ \E fetched \in SUBSET SearchResults(satellite) :
          /\ i_try' = [i_try EXCEPT ![satellite] = @ + 1]
          /\ IF fetched = SearchResults(satellite)
             THEN /\ files' = [files EXCEPT ![satellite] = fetched]
                  /\ dl_pc' = [dl_pc EXCEPT ![satellite] = "load"]
                  /\ UNCHANGED <<error_log, slept>>
             ELSE IF i_try[satellite] < _MAX_DOWNLOAD_TRIES - 1
             THEN /\ files' = [files EXCEPT ![satellite] = fetched]
                  /\ slept' = [slept EXCEPT ![satellite] = Append(@, Backoff(i_try[satellite]))]
                  /\ UNCHANGED <<dl_pc, error_log>>
             ELSE /\ files' = [files EXCEPT ![satellite] = fetched]
                  /\ error_log' = error_log \cup {satellite}
                  /\ dl_pc' = [dl_pc EXCEPT ![satellite] = "load"]
                  /\ UNCHANGED slept
    /\ UNCHANGED <<batch_pc, batch_channels, batch_imported, storeVars, nonDownloadVars>>

\* _download_results returns its files; the rest of _download and the collect
\* loop: the satellite's channels are loaded from the files and put into the
\* dict.
LoadChannels(satellite) ==
    /\ batch_pc = "download"
    /\ dl_pc[satellite] = "load"
    /\ dl_pc' = [dl_pc EXCEPT ![satellite] = "loaded"]
    /\ i_try' = [i_try EXCEPT ![satellite] = 0]
    /\ slept' = [slept EXCEPT ![satellite] = <<>>]
    /\ batch_channels' = batch_channels \o
          WithRange(_load_channels(satellite,
                                   ReturnedFiles(files[satellite], SearchResults(satellite))),
                    BatchRange)
    /\ UNCHANGED <<batch_pc, files, error_log, batch_imported, storeVars, nonDownloadVars>>

\* The database stage: prepare_flux_channels and import_flux.
DatabaseStage ==
    /\ batch_pc = "download"
    /\ \A satellite \in BatchSatellites : dl_pc[satellite] = "loaded"
    /\ IF batch_channels = <<>>
       THEN /\ batch_pc' = "done"
            /\ UNCHANGED <<table, aggs, batch_imported>>
       ELSE \E cleaned \in CleanTasks(table["ARCHIVE"], aggs["ARCHIVE"], "ARCHIVE",
                                      batch_channels, 1) :
               LET all == batch_channels \o cleaned
                   prepared == all \o _combine(table["ARCHIVE"], aggs["ARCHIVE"],
                                               "ARCHIVE", all)
               IN  IF \/ CombineRaises(table["ARCHIVE"], aggs["ARCHIVE"], "ARCHIVE", all)
                      \/ UpsertConflicts(table["ARCHIVE"], prepared)
                   THEN /\ batch_pc' = "crashed"
                        /\ UNCHANGED <<table, aggs, batch_imported>>
                   ELSE /\ table' = [table EXCEPT !["ARCHIVE"] = UpsertResult(@, prepared)]
                        /\ aggs' = [aggs EXCEPT !["ARCHIVE"] =
                                      RefreshLoop("ARCHIVE", table'["ARCHIVE"], @,
                                                  which_includes(prepared), 1)]
                        /\ batch_imported' = prepared
                        /\ batch_pc' = "done"
    /\ UNCHANGED <<dl_pc, i_try, slept, files, error_log, batch_channels,
                   import_source, imp_pc, channels, txn, copy_index, buffer, refresh_index,
                   refreshed, fail_reason, table_before, repeat, nonDownloadVars>>

DownloadNext ==
    \/ \E satellite \in BatchSatellites : DownloadTry(satellite)
    \/ \E satellite \in BatchSatellites : LoadChannels(satellite)
    \/ DatabaseStage

-----------------------------------------------------------------------------
(***************************************************************************)
(* A call of the combiner (importer/flux/_combine.py)                      *)
(***************************************************************************)

\* The series of the calls have their rows at the ticks 0..MaxCombineTime.
MaxCombineTime == 2

\* The flux a satellite measures.
MeasuredFlux(satellite) == IF satellite = 1 THEN 12 ELSE 14

\* The raw series a satellite can have, and the cleaned versions of a raw
\* series: cleaning only removes rows.
RawSeries(satellite) ==
    {{<<t, MeasuredFlux(satellite)>> : t \in T} : T \in SUBSET (0..MaxCombineTime)}

\* The channels of one band a call can get, each raw channel with its cleaned
\* channel.
PairedChannels(band, satellites) ==
    {UNION {{[channel |-> <<sat, band, FALSE>>, flux |-> raw[sat]],
             [channel |-> <<sat, band, TRUE>>, flux |-> clean[sat]]} : sat \in satellites} :
        raw \in [satellites -> UNION {RawSeries(sat) : sat \in satellites}],
        clean \in [satellites -> UNION {RawSeries(sat) : sat \in satellites}]}

\* Every satellite's series are its own, the clean rows being raw rows.
WellFormed(chs) ==
    \A c \in chs :
        /\ c.flux \in RawSeries(c.channel[1])
        /\ c.channel[3] =>
              \E d \in chs : /\ d.channel = <<c.channel[1], c.channel[2], FALSE>>
                             /\ c.flux \subseteq d.flux

CombineOff ==
    /\ combine_pc = "off"
    /\ combine_args = <<"long", {}>>
    /\ result_channels = <<>>

CombineInit ==
    /\ combine_pc = "called"
    /\ \E band \in {Bands[i] : i \in DOMAIN Bands} : \E satellites \in {{1}, {1, 2}} :
          \E chs \in PairedChannels(band, satellites) :
              /\ WellFormed(chs)
              /\ combine_args = <<band, chs>>
    /\ result_channels = <<>>

\* _combine_band(band, band_channels, time_range) runs and returns.
CombineBand ==
    /\ combine_pc = "called"
    /\ result_channels' = _combine_band(combine_args[1], combine_args[2])
    /\ combine_pc' = "returned"
    /\ UNCHANGED <<combine_args, pipeVars, storeVars, prepVars, fetchVars, liveVars,
                   downloadVars, cleanVars, refreshVars, lateVars>>

CombineNext == CombineBand

-----------------------------------------------------------------------------
(***************************************************************************)
(* A call of the cleaner (importer/flux/_clean.py)                         *)
(***************************************************************************)

\* The series of the calls have up to MaxRows rows at the ticks 0 and 1.
MaxRows == 3

\* The fluxes of the rows: missing, zero, a value inside (0, 1), and 1.0.
InputFlux == {NaN, 0, 12, FluxOne}

\* The series a call can get: rows in the order of their timestamps, a
\* timestamp possibly more than once.
InputSeries ==
    UNION {{flux \in [1..n -> {0, 1} \X InputFlux] :
               \A i \in 1..n : \A j \in 1..n : i < j => flux[i][1] <= flux[j][1]}
           : n \in 0..MaxRows}

\* A mask without the test for repeated timestamps.
SaneMask(flux, i) == 0 < flux[i][2] /\ flux[i][2] < FluxOne

\* (0 < flux) & (flux < 1) & ~flux.index.duplicated(keep='first')
SanityMask(flux, i) ==
    /\ 0 < flux[i][2]
    /\ flux[i][2] < FluxOne
    /\ ~\E j \in DOMAIN flux : j < i /\ flux[j][1] = flux[i][1]

\* flux[mask]: the rows of the series the mask keeps.
Remaining(flux) == {flux[i] : i \in {j \in DOMAIN flux : SanityMask(flux, j)}}

\* The values denoising can give a row; 10 ** log_flux can be NaN.
DenoisedFlux == {12, 13, NaN}

\* _denoise and _remove_outliers: the rows keep their timestamps, their values
\* are corrected, and groups of rows are removed.
Denoised(rows) ==
    UNION {{{<<r[1], value[r]>> : r \in kept} : value \in [kept -> DenoisedFlux]}
           : kept \in SUBSET rows}

CleanOff ==
    /\ clean_pc = "off"
    /\ clean_input = <<>>
    /\ clean_output = {}

CleanInit ==
    /\ clean_pc = "called"
    /\ clean_input \in InputSeries
    /\ clean_output = {}

\* clean_flux(flux) runs and returns.
CleanFlux ==
    /\ clean_pc = "called"
    /\ IF clean_input = <<>> \/ Remaining(clean_input) = {}
       THEN clean_output' = {}
       ELSE \E log_flux \in Denoised(Remaining(clean_input)) :
               clean_output' = dropna(log_flux)
    /\ clean_pc' = "returned"
    /\ UNCHANGED <<clean_input, pipeVars, storeVars, prepVars, fetchVars, liveVars,
                   downloadVars, combineVars, refreshVars, lateVars>>

CleanNext == CleanFlux

-----------------------------------------------------------------------------
(***************************************************************************)
(* The refresh task of the fetcher (data/flux/fetcher.py)                  *)
(***************************************************************************)

RefreshOff == update_pc = "off"

\* __init__ has created the task: it is at its first "await self.update()".
RefreshInit == update_pc = "update"

nonRefreshVars == <<pipeVars, storeVars, prepVars, liveVars, downloadVars, combineVars,
                    cleanVars, lateVars>>

\* self.update() returns: the index holds the ranges of the sources, and the
\* task sleeps.
UpdateReturns ==
    /\ update_pc = "update"
    /\ _ranges' = [src \in SourceSet |-> fetch_flux_timestamp_range(table[src])]
    /\ update_pc' = "sleep"
    /\ UNCHANGED <<fetch_pc, request, sections, result, nonRefreshVars>>

\* self.update() raises a database error: it is no CancelledError, so it
\* leaves _update_periodically and the task is done.
UpdateRaises ==
    /\ update_pc = "update"
    /\ update_pc' = "raised"
    /\ UNCHANGED <<fetchVars, nonRefreshVars>>

\* asyncio.sleep(interval) is over: the loop calls update() again.
SleepReturns ==
    /\ update_pc = "sleep"
    /\ update_pc' = "update"
    /\ UNCHANGED <<fetchVars, nonRefreshVars>>

\* cancel(): the pending await raises CancelledError, which is caught, and
\* the task returns; on a task that is done cancel() changes nothing.
Cancel ==
    /\ update_pc \in {"update", "sleep"}
    /\ update_pc' = "returned"
    /\ UNCHANGED <<fetchVars, nonRefreshVars>>

RefreshNext ==
    \/ UpdateReturns
    \/ UpdateRaises
    \/ SleepReturns
    \/ Cancel

-----------------------------------------------------------------------------
(***************************************************************************)
(* The cleanup step of an archive batch (importer/flux/archive.py)         *)
(***************************************************************************)

\* The number of files in used_files.
MaxUsedFiles == 4

\* used_files: the paths the downloads of the batch returned, in order.
UsedFiles == 1..MaxUsedFiles

CleanupOff ==
    /\ cleanup_pc = "off"
    /\ batch_database_event = FALSE
    /\ path = 0
    /\ unlink_jobs = [i \in UsedFiles |-> "none"]
    /\ staged = {}

\* The database stage of the batch is through; the used files are in the
\* staging directory unless something else removed one.
CleanupInit ==
    /\ cleanup_pc = "database"
    /\ batch_database_event = FALSE
    /\ path = 0
    /\ unlink_jobs = [i \in UsedFiles |-> "none"]
    /\ staged \in SUBSET UsedFiles

nonCleanupVars == <<pipeVars, storeVars, prepVars, fetchVars, liveVars, downloadVars,
                    combineVars, cleanVars, refreshVars, waitVars, taskVars, indexVars,
                    rangeVars>>

\* database_event.set(), and the cleanup block is entered.
SetDatabaseEvent ==
    /\ cleanup_pc = "database"
    /\ batch_database_event' = TRUE
    /\ cleanup_pc' = "cleanup"
    /\ UNCHANGED <<path, unlink_jobs, staged, nonCleanupVars>>

\* One turn of the generator gather(*...) unpacks: path is bound to the next
\* used file and run_in_executor hands the lambda to the executor.
CreateJob ==
    /\ cleanup_pc = "cleanup"
    /\ path < MaxUsedFiles
    /\ path' = path + 1
    /\ unlink_jobs' = [unlink_jobs EXCEPT ![path + 1] = "queued"]
    /\ UNCHANGED <<cleanup_pc, batch_database_event, staged, nonCleanupVars>>

\* The lambda reads the generator's variable path when it is called: the file
\* it unlinks is the one the generator is at by then.
BoundPath(i, current) == current

\* An executor thread calls the lambda of job i:
\* Path(path).unlink(missing_ok=True).
RunJob(i) ==
    /\ unlink_jobs[i] = "queued"
    /\ staged' = staged \ {BoundPath(i, path)}
    /\ unlink_jobs' = [unlink_jobs EXCEPT ![i] = "ran"]
    /\ UNCHANGED <<cleanup_pc, batch_database_event, path, nonCleanupVars>>

\* Every job was created and has run: asyncio.gather returns, and so does
\* _process_import_async.
GatherReturns ==
    /\ cleanup_pc = "cleanup"
    /\ path = MaxUsedFiles
    /\ \A i \in UsedFiles : unlink_jobs[i] = "ran"
    /\ cleanup_pc' = "done"
    /\ UNCHANGED <<batch_database_event, path, unlink_jobs, staged, nonCleanupVars>>

CleanupNext ==
    \/ SetDatabaseEvent
    \/ CreateJob
    \/ \E i \in UsedFiles : RunJob(i)
    \/ GatherReturns

-----------------------------------------------------------------------------
(***************************************************************************)
(* The wait the live importer returns (importer/flux/live.py)              *)
(***************************************************************************)

\* A Cache-Control header: absent, or present with the numbers of its
\* max-age directives (none, or max-age=N).
CacheHeaders ==
    {[present |-> FALSE, max_age |-> {}], [present |-> TRUE, max_age |-> {}]}
        \cup {[present |-> TRUE, max_age |-> {n}] : n \in {30, 60, 120}}

\* An Age header: absent (None) or a number of seconds.
AgeHeaders == {None, 0, 10, 90}

\* A max_age that is the default whatever the header says.
DefaultMaxAge(cache_header) == 60

\* max_age: 60 unless the header is there and re.search finds max-age=(\d+).
MaxAgeOf(cache_header) ==
    IF ~cache_header.present THEN 60
    ELSE IF cache_header.max_age = {} THEN 60
    ELSE CHOOSE n \in cache_header.max_age : TRUE

\* age = 0 if age_header is None else int(age_header)
AgeOf(age_header) == IF age_header = None THEN 0 ELSE age_header

\* The loop over the two responses: min_wait starts at 60 s and is lowered to
\* max_age - age of a response that is below it.
RECURSIVE MinWait(_, _, _)
MinWait(headers, min_wait, i) ==
    IF i > Len(headers) THEN min_wait
    ELSE LET wait == MaxAgeOf(headers[i].cache_control) - AgeOf(headers[i].age)
         IN  MinWait(headers, IF wait < min_wait THEN wait ELSE min_wait, i + 1)

WaitOff ==
    /\ wait_pc = "off"
    /\ responses = <<>>
    /\ wait_delta = 0

\* The two feeds have answered.
WaitInit ==
    /\ wait_pc = "polled"
    /\ responses \in [1..2 -> [cache_control : CacheHeaders, age : AgeHeaders]]
    /\ wait_delta = 0

\* return min_wait + timedelta(seconds=1)
ReturnWait ==
    /\ wait_pc = "polled"
    /\ wait_delta' = MinWait(responses, 60, 1) + 1
    /\ wait_pc' = "returned"
    /\ UNCHANGED <<responses, pipeVars, storeVars, prepVars, fetchVars, liveVars,
                   downloadVars, combineVars, cleanVars, refreshVars, cleanupVars, taskVars,
                   indexVars, rangeVars>>

WaitNext == ReturnWait

-----------------------------------------------------------------------------
(***************************************************************************)
(* The clean tasks of prepare_flux_channels (importer/flux/_prepare.py)    *)
(***************************************************************************)

\* The number of raw channels without a cleaned version in the batch.
MaxCleanTasks == 4

CleanTaskIds == 1..MaxCleanTasks

TasksOff ==
    /\ outer_pc = "off"
    /\ clean_tasks = [i \in CleanTaskIds |-> "off"]
    /\ await_index = 0
    /\ ran = {}

\* The loop of asyncio.create_task(_clean(...)) is through.
TasksInit ==
    /\ outer_pc = "awaiting"
    /\ clean_tasks = [i \in CleanTaskIds |-> "running"]
    /\ await_index = 1
    /\ ran = {}

nonTaskVars == <<pipeVars, storeVars, prepVars, fetchVars, liveVars, downloadVars,
                 combineVars, cleanVars, refreshVars, cleanupVars, waitVars, indexVars,
                 rangeVars>>

\* An except clause that cancels nothing.
CancelNone(tasks) == tasks

\* "for _, task in clean_tasks: task.cancel()": a task that is not done is
\* cancelled, a task that is done stays as it is.
CancelAll(tasks) ==
    [i \in DOMAIN tasks |-> IF tasks[i] = "running" THEN "cancelled" ELSE tasks[i]]

\* _clean returns its entry.
TaskReturns(i) ==
    /\ clean_tasks[i] = "running"
    /\ clean_tasks' = [clean_tasks EXCEPT ![i] = "done"]
    /\ UNCHANGED <<outer_pc, await_index, ran, nonTaskVars>>

\* _clean raises (the store or the cleaner fails).
TaskRaises(i) ==
    /\ clean_tasks[i] = "running"
    /\ clean_tasks' = [clean_tasks EXCEPT ![i] = "raised"]
    /\ UNCHANGED <<outer_pc, await_index, ran, nonTaskVars>>

\* "channels[cleaned_channel] = await task" gets the result of a task.
AwaitReturns ==
    /\ outer_pc = "awaiting"
    /\ await_index \in CleanTaskIds
    /\ clean_tasks[await_index] = "done"
    /\ await_index' = await_index + 1
    /\ UNCHANGED <<outer_pc, clean_tasks, ran, nonTaskVars>>

\* The awaited task raised: "except:" cancels every task and raises again.
AwaitRaises ==
    /\ outer_pc = "awaiting"
    /\ await_index \in CleanTaskIds
    /\ clean_tasks[await_index] = "raised"
    /\ clean_tasks' = CancelAll(clean_tasks)
    /\ outer_pc' = "raised"
    /\ UNCHANGED <<await_index, ran, nonTaskVars>>

\* The outer task is cancelled while it awaits a task: the await hands the
\* cancellation on to the awaited task if that is not done, CancelledError is
\* raised at the await, and "except:" cancels every task and raises again.
OuterCancelled ==
    /\ outer_pc = "awaiting"
    /\ await_index \in CleanTaskIds
    /\ clean_tasks' = CancelAll(clean_tasks)
    /\ outer_pc' = "raised"
    /\ UNCHANGED <<await_index, ran, nonTaskVars>>

\* Every task was awaited: channels.update(await _combine(...)); return.
TasksCombine ==
    /\ outer_pc = "awaiting"
    /\ await_index = MaxCleanTasks + 1
    /\ ran' = ran \cup {"combine"}
    /\ outer_pc' = "prepared"
    /\ UNCHANGED <<clean_tasks, await_index, nonTaskVars>>

\* _combine raises or the outer task is cancelled inside it.
TasksCombineRaises ==
    /\ outer_pc = "awaiting"
    /\ await_index = MaxCleanTasks + 1
    /\ ran' = ran \cup {"combine"}
    /\ outer_pc' = "raised"
    /\ UNCHANGED <<clean_tasks, await_index, nonTaskVars>>

\* await import_flux(connection, source, prepared_channels)
TasksImport ==
    /\ outer_pc = "prepared"
    /\ ran' = ran \cup {"import"}
    /\ outer_pc' = "imported"
    /\ UNCHANGED <<clean_tasks, await_index, nonTaskVars>>

TasksNext ==
    \/ \E i \in CleanTaskIds : TaskReturns(i)
    \/ \E i \in CleanTaskIds : TaskRaises(i)
    \/ AwaitReturns
    \/ AwaitRaises
    \/ OuterCancelled
    \/ TasksCombine
    \/ TasksCombineRaises
    \/ TasksImport

-----------------------------------------------------------------------------
(***************************************************************************)
(* The index of the fetcher and its update (data/flux/fetcher.py)          *)
(***************************************************************************)

\* Timestamps of the rows the importers store while the index is watched.
MaxIndexTime == 1

\* The stored rows of the served channel of a source: none, or a row per tick
\* from a first timestamp to a last one.
IndexRows(source) ==
    {{}} \cup { {<<_DEFAULT_CHANNEL, t, SourceFlux(source)>> : t \in lo..hi}
                : lo \in 0..MaxIndexTime, hi \in 0..MaxIndexTime }

\* "ranges = {}; start = end = None" and the loop at its first source.
FreshLocals ==
    [ranges |-> [src \in SourceSet |-> <<>>], start |-> None, end |-> None, i |-> 1]

IndexOff ==
    /\ index_pc = "off"
    /\ update_locals = FreshLocals
    /\ self_start = None
    /\ self_end = None

\* FluxFetcher.__init__: an empty index, and the task is created.
IndexInit ==
    /\ index_pc = "start"
    /\ update_locals = FreshLocals
    /\ self_start = None
    /\ self_end = None

nonIndexVars == <<pipeVars, prepVars, liveVars, downloadVars, combineVars, cleanVars,
                  refreshVars, cleanupVars, waitVars, taskVars, rangeVars>>

storeCallVars == <<import_source, imp_pc, channels, txn, copy_index, buffer, refresh_index,
                   refreshed, fail_reason, table_before, repeat>>

\* An update that assigns the ranges and leaves start and end for later.
AssignRanges(ranges, first, last) ==
    /\ _ranges' = ranges
    /\ UNCHANGED <<self_start, self_end>>

\* "self._ranges = ranges; self.start = start; self.end = end": three
\* assignments without an await between them.
AssignIndex(ranges, first, last) ==
    /\ _ranges' = ranges
    /\ self_start' = first
    /\ self_end' = last

\* The body of the loop of update() for the source the loop is at, given the
\* answer of fetch_flux_timestamp_range.
LoopBody(locals, timestamp_range) ==
    IF timestamp_range = <<>> THEN [locals EXCEPT !.i = @ + 1]
    ELSE [ranges |-> [locals.ranges EXCEPT ![_SOURCES[locals.i]] = timestamp_range],
          start |-> IF locals.start = None \/ timestamp_range[1] < locals.start
                    THEN timestamp_range[1] ELSE locals.start,
          end |-> IF locals.end = None \/ locals.end < timestamp_range[2]
                  THEN timestamp_range[2] ELSE locals.end,
          i |-> locals.i + 1]

\* update() is entered (at the start of the task or after the sleep) and
\* awaits the connection and the first query.
UpdateBegin ==
    /\ index_pc \in {"start", "sleep"}
    /\ index_pc' = "query"
    /\ update_locals' = FreshLocals
    /\ UNCHANGED <<self_start, self_end, fetchVars, storeVars, nonIndexVars>>

\* "await fetch_flux_timestamp_range(...)" returns for the source the loop is
\* at.  After the last source the index is assigned in the same step, and the
\* task awaits the sleep.
UpdateQuery ==
    /\ index_pc = "query"
    /\ LET source == _SOURCES[update_locals.i]
           locals == LoopBody(update_locals, fetch_flux_timestamp_range(table[source]))
       IN  IF locals.i <= Len(_SOURCES)
           THEN /\ update_locals' = locals
                /\ UNCHANGED <<index_pc, _ranges, self_start, self_end>>
           ELSE /\ AssignIndex(locals.ranges, locals.start, locals.end)
                /\ update_locals' = FreshLocals
                /\ index_pc' = "sleep"
    /\ UNCHANGED <<fetch_pc, request, sections, result, storeVars, nonIndexVars>>

\* A query of update() raises: the locals are gone and the task is done.
UpdateFails ==
    /\ index_pc = "query"
    /\ index_pc' = "raised"
    /\ update_locals' = FreshLocals
    /\ UNCHANGED <<self_start, self_end, fetchVars, storeVars, nonIndexVars>>

\* An importer commits an upsert of a source's served channel.
ImporterCommits(source) ==
    /\ \E rows \in IndexRows(source) :
          /\ rows # table[source]
          /\ table' = [table EXCEPT ![source] = rows]
          /\ aggs' = [aggs EXCEPT ![source] = Materialized(source, rows)]
    /\ UNCHANGED <<storeCallVars, indexVars, fetchVars, nonIndexVars>>

IndexNext ==
    \/ UpdateBegin
    \/ UpdateQuery
    \/ UpdateFails
    \/ \E source \in SourceSet : ImporterCommits(source)

-----------------------------------------------------------------------------
(***************************************************************************)
(* The batch ranges of ArchiveImporter._import_from                        *)
(* (importer/flux/archive.py).  Datetimes are UTC ticks, dates are days.   *)
(***************************************************************************)

_BATCH_SIZE_DAYS == 30

\* The ticks of a day.
TicksPerDay == 4

\* The days the clock covers.
MaxDays == 61

\* The latest resume point.
MaxResume == 5

\* The offsets of the local time zone of the process from UTC, in ticks.
UtcOffsets == {-1, 0, 1}

\* datetime.date() of a UTC datetime.
Date(t) == t \div TicksPerDay

\* date.today(): the date of the local clock.
Today(now, offset) == Date(now + offset)

\* datetime.combine(start_date, time(), timezone.utc)
Midnight(day) == day * TicksPerDay

\* timedelta(days=_BATCH_SIZE_DAYS)
BatchDelta == _BATCH_SIZE_DAYS * TicksPerDay

RangesOff ==
    /\ range_pc = "off"
    /\ batch_start = None
    /\ batch_now = None
    /\ batch_today = None
    /\ start_date = None
    /\ time_ranges = <<>>

\* The call of _import_from(start).
RangesInit ==
    /\ range_pc = "call"
    /\ batch_start \in 0..MaxResume
    /\ batch_now = None
    /\ batch_today = None
    /\ start_date = None
    /\ time_ranges = <<>>

nonRangeVars == <<pipeVars, storeVars, prepVars, fetchVars, liveVars, downloadVars,
                  combineVars, cleanVars, refreshVars, cleanupVars, waitVars, taskVars,
                  indexVars>>

\* "now = datetime.now(timezone.utc)" and
\* "days = pd.date_range(start.date(), date.today(), freq='D')".
ReadClock ==
    /\ range_pc = "call"
    /\ \E now \in batch_start..(MaxDays * TicksPerDay) : \E offset \in UtcOffsets :
          /\ now + offset >= 0
          /\ batch_now' = now
          /\ batch_today' = Today(now, offset)
    /\ start_date' = Date(batch_start)
    /\ range_pc' = "submit"
    /\ UNCHANGED <<batch_start, time_ranges, nonRangeVars>>

\* One pass of "for start_date in days[::_BATCH_SIZE_DAYS]": the batch's
\* time_range is made and submitted.
SubmitBatch ==
    /\ range_pc = "submit"
    /\ start_date <= batch_today
    /\ LET start_datetime == Midnight(start_date)
       IN  time_ranges' = Append(time_ranges,
               [start |-> IF batch_start > start_datetime THEN batch_start
                          ELSE start_datetime,
                end |-> IF start_datetime + BatchDelta < batch_now
                        THEN start_datetime + BatchDelta ELSE batch_now])
    /\ start_date' = start_date + _BATCH_SIZE_DAYS
    /\ UNCHANGED <<range_pc, batch_start, batch_now, batch_today, nonRangeVars>>

\* The days are used up: _import_from waits for the results.
SubmitEnds ==
    /\ range_pc = "submit"
    /\ start_date > batch_today
    /\ range_pc' = "wait"
    /\ UNCHANGED <<batch_start, batch_now, batch_today, start_date, time_ranges,
                   nonRangeVars>>

RangesNext ==
    \/ ReadClock
    \/ SubmitBatch
    \/ SubmitEnds

-----------------------------------------------------------------------------
(***************************************************************************)
(* Specifications                                                          *)
(***************************************************************************)

\* The parts no specification below looks at are off.
LateOff == CleanupOff /\ WaitOff /\ TasksOff /\ IndexOff /\ RangesOff

AuxOff == DownloadOff /\ CombineOff /\ CleanOff /\ RefreshOff /\ LateOff

\* The store is idle while the pipeline is looked at, and the other way round.
InitPipeline == PipeInit /\ StoreInit /\ PrepInit /\ FetchInit /\ LiveOff /\ AuxOff /\ import_source = "ARCHIVE"

InitStore == StoreInit /\ PipeInit /\ PrepInit /\ FetchInit /\ LiveOff /\ AuxOff

\* Both importers prepare and import in the same way; the tables of the two
\* sources do not touch each other.
InitPrepare == PrepInit /\ StoreInit /\ PipeInit /\ FetchInit /\ LiveOff /\ AuxOff /\ import_source = "ARCHIVE"

\* The fetcher is looked at over every stored content of the two sources, the
\* roll-ups being up to date; no importer runs.
InitFetch ==
    /\ FetchInit
    /\ LiveOff /\ AuxOff
    /\ PipeInit
    /\ PrepInit
    /\ \E archive \in StoredRows("ARCHIVE") : \E live \in StoredRows("LIVE") :
          /\ table = [src \in SourceSet |-> IF src = "ARCHIVE" THEN archive ELSE live]
          /\ aggs = [src \in SourceSet |->
                       Materialized(src, IF src = "ARCHIVE" THEN archive ELSE live)]
    /\ import_source = "ARCHIVE"
    /\ imp_pc = "idle"
    /\ channels = <<>>
    /\ txn = {}
    /\ copy_index = 1
    /\ buffer = {}
    /\ refresh_index = 1
    /\ refreshed = <<>>
    /\ fail_reason = "none"
    /\ table_before = {}
    /\ repeat = FALSE


\* The live importer runs against an empty LIVE table.
InitLive == LiveInit /\ AuxOff /\ StoreInit /\ PipeInit /\ PrepInit /\ FetchInit /\ import_source = "LIVE"

SpecPipeline == InitPipeline /\ [][PipeNext]_vars

\* Every stage of a batch that can go on does go on, the parent collects a
\* finished result, and the sleeps of the supervisor and of start_import end.
PipeFairness ==
    /\ \A b \in Batches :
          /\ WF_vars(PickUp(b))
          /\ WF_vars(StartSearch(b))
          /\ WF_vars(FinishSearch(b))
          /\ WF_vars(StartDownload(b))
          /\ WF_vars(FinishDownload(b))
          /\ WF_vars(StartDatabase(b))
          /\ WF_vars(FinishDatabase(b))
          /\ WF_vars(FinishCleanup(b))
          /\ WF_vars(Exit(b))
    /\ WF_vars(MainGet)
    /\ WF_vars(MainTerminate)
    /\ WF_vars(MainReturn)
    /\ WF_vars(SuperviseRestart)
    /\ WF_vars(NextImport)

SpecPipelineFair == InitPipeline /\ [][PipeNext]_vars /\ PipeFairness

SpecStore == InitStore /\ [][StoreNext]_vars

SpecPrepare == InitPrepare /\ [][PrepNext]_vars

SpecFetch == InitFetch /\ [][FetchNext]_vars

SpecLive == InitLive /\ [][LiveNext]_vars

\* One batch of the archive importer from its download stage on, against an
\* empty ARCHIVE table.
InitDownload ==
    DownloadInit /\ StoreInit /\ PipeInit /\ PrepInit /\ FetchInit /\ LiveOff
        /\ CombineOff /\ CleanOff /\ RefreshOff /\ LateOff /\ import_source = "ARCHIVE"

SpecDownload == InitDownload /\ [][DownloadNext]_vars

\* Fido.fetch returns in the executor and a sleep ends: a download task that
\* has a next turn of its loop takes it.
DownloadFairness ==
    \A satellite \in BatchSatellites : WF_vars(DownloadTry(satellite))

SpecDownloadFair == InitDownload /\ [][DownloadNext]_vars /\ DownloadFairness

\* One call of _combine_band on the paired channels of a band.
InitCombine ==
    CombineInit /\ StoreInit /\ PipeInit /\ PrepInit /\ FetchInit /\ LiveOff /\ DownloadOff
        /\ CleanOff /\ RefreshOff /\ LateOff

SpecCombine == InitCombine /\ [][CombineNext]_vars

\* One call of clean_flux on a series.
InitClean ==
    CleanInit /\ StoreInit /\ PipeInit /\ PrepInit /\ FetchInit /\ LiveOff /\ DownloadOff
        /\ CombineOff /\ RefreshOff /\ LateOff

SpecClean == InitClean /\ [][CleanNext]_vars

\* The refresh task over every stored content of the two sources.
InitRefresh ==
    /\ RefreshInit
    /\ FetchInit
    /\ LiveOff
    /\ LateOff
    /\ DownloadOff
    /\ CombineOff
    /\ CleanOff
    /\ PipeInit
    /\ PrepInit
    /\ \E archive \in StoredRows("ARCHIVE") : \E live \in StoredRows("LIVE") :
          /\ table = [src \in SourceSet |-> IF src = "ARCHIVE" THEN archive ELSE live]
          /\ aggs = [src \in SourceSet |->
                       Materialized(src, IF src = "ARCHIVE" THEN archive ELSE live)]
    /\ import_source = "ARCHIVE"
    /\ imp_pc = "idle"
    /\ channels = <<>>
    /\ txn = {}
    /\ copy_index = 1
    /\ buffer = {}
    /\ refresh_index = 1
    /\ refreshed = <<>>
    /\ fail_reason = "none"
    /\ table_before = {}
    /\ repeat = FALSE

\* The awaits of the task end: update() returns or raises, the sleep is over.
RefreshFairness ==
    /\ WF_vars(UpdateReturns \/ UpdateRaises)
    /\ WF_vars(SleepReturns)

SpecRefresh == InitRefresh /\ [][RefreshNext]_vars /\ RefreshFairness

\* The cleanup of a batch with MaxUsedFiles used files.
InitCleanup ==
    CleanupInit /\ StoreInit /\ PipeInit /\ PrepInit /\ FetchInit /\ LiveOff /\ DownloadOff
        /\ CombineOff /\ CleanOff /\ RefreshOff /\ WaitOff /\ TasksOff /\ IndexOff /\ RangesOff /\ import_source = "ARCHIVE"

\* The wait computation over the headers of two responses.
InitWait ==
    WaitInit /\ StoreInit /\ PipeInit /\ PrepInit /\ FetchInit /\ LiveOff /\ DownloadOff
        /\ CombineOff /\ CleanOff /\ RefreshOff /\ CleanupOff /\ TasksOff /\ IndexOff /\ RangesOff /\ import_source = "LIVE"

SpecWait == InitWait /\ [][WaitNext]_vars

\* prepare_flux_channels with its clean tasks created, and import_flux after it.
InitTasks ==
    TasksInit /\ StoreInit /\ PipeInit /\ PrepInit /\ FetchInit /\ LiveOff /\ DownloadOff
        /\ CombineOff /\ CleanOff /\ RefreshOff /\ CleanupOff /\ WaitOff /\ IndexOff
        /\ RangesOff /\ import_source = "ARCHIVE"

SpecTasks == InitTasks /\ [][TasksNext]_vars

\* The fetcher after construction over stores that the importers write to.
InitIndex ==
    /\ IndexInit
    /\ FetchInit
    /\ PipeInit /\ PrepInit /\ LiveOff /\ DownloadOff /\ CombineOff /\ CleanOff /\ RefreshOff
    /\ CleanupOff /\ WaitOff /\ TasksOff /\ RangesOff
    /\ \E archive \in IndexRows("ARCHIVE") : \E live \in IndexRows("LIVE") :
          /\ table = [src \in SourceSet |-> IF src = "ARCHIVE" THEN archive ELSE live]
          /\ aggs = [src \in SourceSet |->
                       Materialized(src, IF src = "ARCHIVE" THEN archive ELSE live)]
    /\ import_source = "ARCHIVE"
    /\ imp_pc = "idle"
    /\ channels = <<>>
    /\ txn = {}
    /\ copy_index = 1
    /\ buffer = {}
    /\ refresh_index = 1
    /\ refreshed = <<>>
    /\ fail_reason = "none"
    /\ table_before = {}
    /\ repeat = FALSE

SpecIndex == InitIndex /\ [][IndexNext]_vars

\* _import_from is called with a resume point.
InitRanges ==
    /\ RangesInit
    /\ PipeInit /\ StoreInit /\ PrepInit /\ FetchInit /\ LiveOff /\ DownloadOff
    /\ CombineOff /\ CleanOff /\ RefreshOff /\ CleanupOff /\ WaitOff /\ TasksOff /\ IndexOff
    /\ import_source = "ARCHIVE"

SpecRanges == InitRanges /\ [][RangesNext]_vars

SpecCleanup == InitCleanup /\ [][CleanupNext]_vars

-----------------------------------------------------------------------------
(***************************************************************************)
(* Claims about the pipeline                                               *)
(***************************************************************************)

\* A step in which batch b enters stage S is taken only with batch b - 1's
\* S-done event set.
GateStep ==
    \A b \in Batches :
        /\ (pc[b] = "wait_search" /\ pc'[b] = "search") => search_event[b - 1]
        /\ (pc[b] = "wait_download" /\ pc'[b] = "download") => download_event[b - 1]
        /\ (pc[b] = "wait_database" /\ pc'[b] = "database") => database_event[b - 1]

\* A batch inside a stage has its predecessor's event of that stage set, and the
\* events handed to the first batch are set.
GateInv ==
    /\ search_event[0] /\ download_event[0] /\ database_event[0]
    /\ \A b \in Batches :
        /\ pc[b] \in {"search", "wait_download", "download", "wait_database",
                      "database", "cleanup"} => search_event[b - 1]
        /\ pc[b] \in {"download", "wait_database", "database", "cleanup"}
              => download_event[b - 1]
        /\ pc[b] \in {"database", "cleanup"} => database_event[b - 1]

\* C1 (as amended): for every batch N >= 2 and every stage S in {search,
\* download, database}, batch N does not start stage S before batch N-1 has set
\* its S-done event, and the first batch's three predecessor events are set from
\* the start.  In particular, while batch 1 has finished search but not download,
\* batch 2 cannot start download, and batch 3 cannot start search unless batch 2
\* has set its search-done event.
C1_Gating == [][GateStep]_vars /\ []GateInv

\* C1 witness: batch 1 is downloading, batch 2 has finished its search and is
\* held at the download gate.
C1_Witness ==
    /\ pc[1] = "download"
    /\ pc[2] = "wait_download"
    /\ search_event[2]
    /\ ~download_event[1]

\* C1 as stated: once batch 1 has finished search (with files) but not download,
\* batch 3 is not searching.
C1_Original ==
    (pc[1] \in {"wait_download", "download"} /\ ~download_event[1])
        => pc[3] # "search"

\* C2 as stated: at most one batch is inside its database stage, and a batch is
\* in (or past) its database stage only when every earlier batch that found files
\* has completed its own database stage.
C2_DatabaseSerial ==
    /\ Cardinality({b \in Batches : pc[b] = "database"}) <= 1
    /\ \A a, b \in Batches :
          (a < b /\ pc[b] \in {"database", "cleanup"})
              => pc[a] \notin {"wait_download", "download", "wait_database", "database"}

\* A call of _import_from starts: it creates its own pool and events.
NewEvents == main_pc # "waiting" /\ main_pc' = "waiting"

\* The events of a call are never cleared, and a worker that raises sets no
\* event, in the step that raises and afterwards; the stage it raised in has
\* not set its event, nor has a later stage.
EventStep ==
    ~NewEvents =>
        \A b \in Batches :
            /\ search_event[b] => search_event'[b]
            /\ download_event[b] => download_event'[b]
            /\ database_event[b] => database_event'[b]
            /\ pc'[b] = "failed" =>
                  /\ search_event'[b] = search_event[b]
                  /\ download_event'[b] = download_event[b]
                  /\ database_event'[b] = database_event[b]
            /\ (pc[b] # "failed" /\ pc'[b] = "failed") =>
                  /\ pc[b] = "search" => ~search_event[b]
                  /\ pc[b] \in {"search", "download"} => ~download_event[b]
                  /\ pc[b] \in {"search", "download", "database"} => ~database_event[b]

\* The events of a batch are set in the order search, download, database; a
\* worker that returned has all three set; a worker inside a stage has not set
\* the event of that stage.
EventOrder ==
    \A b \in Batches :
        /\ database_event[b] => download_event[b]
        /\ download_event[b] => search_event[b]
        /\ pc[b] = "done" => (search_event[b] /\ download_event[b] /\ database_event[b])
        /\ pc[b] \in {"queued", "wait_search", "search"} => ~search_event[b]
        /\ pc[b] \in {"wait_download", "download"} => (search_event[b] /\ ~download_event[b])
        /\ pc[b] \in {"wait_database", "database"} => (download_event[b] /\ ~database_event[b])
        /\ pc[b] = "cleanup" => database_event[b]

\* C23: the three done events of a batch are never cleared once set and
\* become set in the order search, download, database; a worker that returns,
\* also by the early return after a search without files, leaves all three
\* set; a worker that raises leaves unset the event of every stage it did not
\* finish.
C23_EventsMonotonic == [][EventStep]_vars /\ []EventOrder

\* C23 witness: the first batch returned, the second raised in its download
\* stage with its search event set and the other two unset.
C23_Witness ==
    /\ pc[1] = "done"
    /\ pc[2] = "failed"
    /\ search_event[2]
    /\ ~download_event[2]
    /\ ~database_event[2]

-----------------------------------------------------------------------------
(***************************************************************************)
(* Claims about the store                                                  *)
(***************************************************************************)

\* The call has committed its transaction (and still holds its arguments).
Committed == imp_pc \in {"refresh", "done", "stopped"}

\* The rows of a channel in a table.
RowsOf(rows, channel) == {r \in rows : r[1] = channel}

\* The series of an entry lies in its declared range and holds float32 numbers.
SeriesInRange(entry) ==
    \A r \in entry.flux : InRange(r[1], entry.start, entry.end) /\ r[2] \in RealValues

\* A raw read of the entry's channel over its declared range, on the committed
\* state.
RawRead(entry) ==
    SelectFlux(table[import_source], aggs[import_source], import_source, entry.channel,
               raw_resolution(import_source), entry.start, entry.end)

StrictlyAscending(rows) ==
    \A i, j \in DOMAIN rows : i < j => rows[i][1] < rows[j][1]

\* C3: for any source, channel c and declared range [s,e) and any series with
\* distinct timestamps inside [s,e): after import_flux has committed, a raw read
\* of c over [s,e) returns exactly the rows of the series, strictly ascending in
\* time; a call whose series all lie in their ranges is never rejected by the
\* primary key, and a second call with the same arguments commits the very same
\* table, so the stored rows and the read result do not change.
C3_ReadBackIdempotent ==
    /\ Committed =>
          \A i \in DOMAIN channels :
              SeriesInRange(channels[i]) =>
                  /\ RawRead(channels[i]) = OrderByTime(channels[i].flux)
                  /\ StrictlyAscending(RawRead(channels[i]))
    /\ (\A i \in DOMAIN channels : SeriesInRange(channels[i])) =>
          /\ fail_reason # "conflict"
          /\ (repeat /\ Committed) => table[import_source] = table_before

\* C3 witness: a two-channel call with two rows per channel, all inside the
\* declared ranges, has been repeated and the repetition has returned.
C3_Witness ==
    /\ imp_pc = "done"
    /\ repeat
    /\ Len(channels) = 2
    /\ \A i \in DOMAIN channels :
          SeriesInRange(channels[i]) /\ Cardinality(channels[i].flux) = 2
    /\ table[import_source] = table_before
    /\ Cardinality(table[import_source]) >= 4

\* C4: a call with an empty series and a non-empty declared range [s,e) for
\* channel c removes every stored row of c with s <= time < e, inserts nothing
\* for c, and leaves every row of c outside [s,e) and every row of a channel
\* that is not a key of the call as it was.
C4_EmptySeriesDeletes ==
    Committed =>
        \A i \in DOMAIN channels :
            (channels[i].flux = {} /\ channels[i].start < channels[i].end) =>
                LET c == channels[i].channel
                    keys == {channels[j].channel : j \in DOMAIN channels}
                IN  /\ \A r \in RowsOf(table[import_source], c) :
                          ~InRange(r[2], channels[i].start, channels[i].end)
                    /\ RowsOf(table[import_source], c) \subseteq RowsOf(table_before, c)
                    /\ \A r \in RowsOf(table_before, c) :
                          ~InRange(r[2], channels[i].start, channels[i].end)
                              => r \in table[import_source]
                    /\ \A r \in table_before \cup table[import_source] :
                          r[1] \notin keys => (r \in table_before <=> r \in table[import_source])

\* C4 witness: a one-channel call with an empty series over a non-empty range
\* has returned; beforehand the table held a row of the channel inside the
\* range, a row of it outside, and a row of the other channel.
C4_Witness ==
    /\ imp_pc = "done"
    /\ Len(channels) = 1
    /\ channels[1].flux = {}
    /\ channels[1].start < channels[1].end
    /\ \E r \in RowsOf(table_before, channels[1].channel) :
          InRange(r[2], channels[1].start, channels[1].end)
    /\ \E r \in RowsOf(table_before, channels[1].channel) :
          ~InRange(r[2], channels[1].start, channels[1].end)
    /\ \E r \in table_before : r[1] # channels[1].channel

\* C5: while the transaction of a call is open, and after the call has failed
\* or has been cancelled between its DELETE and its last COPY, the source table
\* holds exactly the rows it held before the call and no aggregate refresh has
\* been issued; the committed table is at every moment either the table before
\* the call or the table with every declared range deleted and every series
\* inserted, never a state in between.
C5_RollbackAndIsolation ==
    /\ imp_pc \in {"delete", "copy", "failed"} =>
          /\ table[import_source] = table_before
          /\ refreshed = <<>>
    /\ imp_pc # "idle" =>
          \/ table[import_source] = table_before
          \/ table[import_source] = UpsertResult(table_before, channels)

\* C5 witness: a two-channel call was cancelled after its DELETE removed
\* stored rows and its first COPY ran.
C5_Witness ==
    /\ imp_pc = "failed"
    /\ fail_reason = "cancelled"
    /\ Len(channels) = 2
    /\ copy_index = 2
    /\ channels[1].flux # {}
    /\ DeleteFlux(table_before, channels) # table_before
    /\ table[import_source] = table_before

\* The roll-ups of a source as their defining queries give them from the
\* committed raw table.
FreshAggs(source) == Materialized(source, table[source])

\* Every roll-up read of every channel over the whole time axis returns what
\* the committed raw rows give.
RollupReadsConsistent ==
    \A c \in StoreChannels : \A k \in DOMAIN resolutions(import_source) :
        SelectFlux(table[import_source], aggs[import_source], import_source, c,
                   resolutions(import_source)[k], 0, MaxTime + 1)
          = SelectFlux(table[import_source], FreshAggs(import_source), import_source, c,
                       resolutions(import_source)[k], 0, MaxTime + 1)

\* C6 (as amended): once the refresh loop of a committed upsert has run to its
\* end (and that of every upsert before it), the roll-ups agree with the
\* committed raw rows, so a roll-up read and a raw read show the same upsert;
\* between the commit and the end of the refresh loop, and for good if the
\* process stops there, roll-up reads can still show the values from before
\* the upsert.
C6_ConsistentAfterRefresh ==
    imp_pc \notin {"refresh", "stopped"} =>
        /\ aggs[import_source] = FreshAggs(import_source)
        /\ RollupReadsConsistent

\* C6 witness: a call that changed the raw table has finished both refreshes
\* and the roll-ups hold rows.
C6_Witness ==
    /\ imp_pc = "done"
    /\ table[import_source] # table_before
    /\ Len(refreshed) = Len(resolutions(import_source))
    /\ \A k \in DOMAIN resolutions(import_source) : aggs[import_source][k] # {}

\* C6 as stated: in every reachable state the roll-up reads agree with the
\* committed raw rows.
C6_Original == RollupReadsConsistent

\* The refresh statements a call issues when it runs to its end: one per
\* roll-up of the source, in the order of the roll-ups, each over the declared
\* ranges' hull extended by the bucket size of the roll-up.
ExpectedRefreshes ==
    [k \in DOMAIN resolutions(import_source) |->
        <<k,
          SetMin({channels[i].start : i \in DOMAIN channels}) - resolutions(import_source)[k],
          SetMax({channels[i].end : i \in DOMAIN channels}) + resolutions(import_source)[k]>>]

\* The roll-ups of every source are listed with ascending bucket sizes.
BucketSizesAscend ==
    \A src \in SourceSet : \A k \in DOMAIN resolutions(src) :
        k > 1 => resolutions(src)[k - 1] < resolutions(src)[k]

\* A call with an empty dict returns at once: no transaction is opened, and
\* neither the table nor a roll-up changes.
EmptyCallStep ==
    (imp_pc = "idle" /\ imp_pc' # "idle" /\ channels' = <<>>)
        => (imp_pc' = "done" /\ txn' = {} /\ refreshed' = <<>>
                /\ table' = table /\ aggs' = aggs)

\* C21: import_flux issues its refreshes only after the transaction has
\* committed, never inside it and never after it failed; a call that returns
\* has issued exactly one refresh per roll-up of the source, in ascending
\* bucket-size order, each over [min of the declared starts - bucket size,
\* max of the declared ends + bucket size]; a call with an empty dict issues
\* nothing.
C21_RefreshAfterCommit ==
    /\ [](/\ BucketSizesAscend
          /\ imp_pc \in {"idle", "delete", "copy", "failed"} => refreshed = <<>>
          /\ channels = <<>> => refreshed = <<>>
          /\ (imp_pc \in {"refresh", "stopped", "done"} /\ channels # <<>>)
                => /\ Len(refreshed) <= Len(ExpectedRefreshes)
                   /\ refreshed = SubSeq(ExpectedRefreshes, 1, Len(refreshed))
                   /\ refresh_index = Len(refreshed) + 1
                   /\ table[import_source] = UpsertResult(table_before, channels)
          /\ (imp_pc = "done" /\ channels # <<>>) => refreshed = ExpectedRefreshes)
    /\ [][EmptyCallStep]_vars

\* A call with two entries of different ranges on the source with two
\* roll-ups has returned.
C21_Witness ==
    /\ imp_pc = "done"
    /\ import_source = "ARCHIVE"
    /\ Len(channels) = 2
    /\ channels[1].start # channels[2].start
    /\ Len(refreshed) = 2

-----------------------------------------------------------------------------
(***************************************************************************)
(* Claims about prepare_flux_channels                                      *)
(***************************************************************************)

\* The stored rows prepare_flux_channels read: the table as the upsert found it.
StoredAtPrepare == IF prep_pc = "importing" THEN table_before ELSE table[import_source]


\* The raw rows of a channel the cleaner was given for range R: the provided
\* ones and the stored ones inside R extended by twice the clean border.
RawForClean(entry) ==
    TimesOf(entry.flux)
        \cup {r[2] : r \in {q \in RowsOf(StoredAtPrepare, entry.channel) :
                                InRange(q[2], entry.start - 2 * CLEAN_BORDER_SIZE,
                                        entry.end + 2 * CLEAN_BORDER_SIZE)}}

\* The dict has, for the raw entry i, the entry of the cleaned channel with the
\* declared range the raw one has after the given extension.
HasCleanEntry(chs, i, border) ==
    \E j \in DOMAIN chs :
        /\ chs[j].channel = CleanedChannel(chs[i].channel)
        /\ <<chs[j].start, chs[j].end>> = extend(<<chs[i].start, chs[i].end>>, border)

\* A step that changes a table is the commit of an upsert of a prepared dict.
TableStepIsPreparedUpsert ==
    table' # table =>
        /\ prep_pc = "importing"
        /\ channels = prep_channels
        /\ imp_pc = "copy" /\ imp_pc' = "refresh"

\* C7 (as amended): every upsert done through prepare_flux_channels and
\* import_flux that writes a raw satellite channel (s,b,false), s >= 1, with
\* declared range R also writes, in the same transaction, the clean channel
\* (s,b,true) with declared range R extended by the clean border on both sides,
\* its rows cleaned from the raw rows over R extended by twice the border and
\* cut to the extended range; the combined raw channel (0,b,false) is written
\* together with the combined clean channel (0,b,true) over the same declared
\* range.  No raw channel is written without its clean counterpart.
C7_Paired ==
    /\ [](prep_pc \in {"prepared", "importing"} =>
            \A i \in DOMAIN prep_channels :
                ~prep_channels[i].channel[3] =>
                    IF prep_channels[i].channel[1] # SATELLITE_COMBINED_ID
                    THEN /\ HasCleanEntry(prep_channels, i, CLEAN_BORDER_SIZE)
                         /\ \A j \in DOMAIN prep_channels :
                               prep_channels[j].channel = CleanedChannel(prep_channels[i].channel)
                                   => /\ TimesOf(prep_channels[j].flux) \subseteq RawForClean(prep_channels[i])
                                      /\ \A t \in TimesOf(prep_channels[j].flux) :
                                            prep_channels[j].start <= t /\ t <= prep_channels[j].end
                    ELSE HasCleanEntry(prep_channels, i, 0))
    /\ [][TableStepIsPreparedUpsert]_vars

\* C7 witness: an upsert of a prepared dict has returned; it wrote the raw
\* channel with a row, and its clean entry holds a row from outside the raw
\* range while a stored raw row beyond the clean border was cut away.
C7_Witness ==
    /\ prep_pc = "importing"
    /\ imp_pc = "done"
    /\ Len(channels) = 4
    /\ channels[1].flux # {}
    /\ \E r \in channels[2].flux : ~InRange(r[1], prep_range[1], prep_range[2])
    /\ \E r \in RowsOf(table_before, ProvidedChannel) :
          /\ r[2] < channels[2].start
          /\ channels[2].start - CLEAN_BORDER_SIZE <= r[2]
    /\ table[import_source] # table_before

\* C7 as stated: every raw channel of an upsert, the combined one included, has
\* its clean counterpart in the upsert with the raw range extended by the clean
\* border.
C7_Original ==
    prep_pc \in {"prepared", "importing"} =>
        \A i \in DOMAIN prep_channels :
            ~prep_channels[i].channel[3] => HasCleanEntry(prep_channels, i, CLEAN_BORDER_SIZE)

\* The entries prepare_flux_channels hands to _combine: the provided channels
\* and their cleaned versions.
HandedToCombine == SelectSeq(prep_channels, LAMBDA e : e.channel[1] # SATELLITE_COMBINED_ID)

\* The entries _combine returned.
CombinedEntries == SelectSeq(prep_channels, LAMBDA e : e.channel[1] = SATELLITE_COMBINED_ID)

\* The hull of the declared ranges handed to _combine.
ProvidedHull ==
    <<SetMin({HandedToCombine[i].start : i \in DOMAIN HandedToCombine}),
      SetMax({HandedToCombine[i].end : i \in DOMAIN HandedToCombine})>>

\* The combined entries have the hull of the given ranges, widened by the
\* given number of ticks, as their declared range.
CombinedRangeIs(hull, border) ==
    \A i \in DOMAIN CombinedEntries :
        /\ CombinedEntries[i].start = hull[1] - border
        /\ CombinedEntries[i].end = hull[2] + border

\* The series the combiner was given for a channel holds, outside the declared
\* range of the channel, the stored rows of the channel inside the hull widened
\* by twice the combine border, and no row outside the widened hull.
InputCoversFetchRange(input) ==
    LET lo == ProvidedHull[1] - 2 * COMBINE_BORDER_SIZE
        hi == ProvidedHull[2] + 2 * COMBINE_BORDER_SIZE
        declared(c) == {<<HandedToCombine[i].start, HandedToCombine[i].end>> :
                           i \in {j \in DOMAIN HandedToCombine : HandedToCombine[j].channel = c}}
    IN  \A c \in input :
            /\ \A r \in c.flux : lo <= r[1] /\ r[1] < hi
            /\ \A q \in RowsOf(StoredAtPrepare, c.channel) :
                  (/\ lo <= q[2] /\ q[2] < hi
                   /\ \A d \in declared(c.channel) : ~InRange(q[2], d[1], d[2]))
                      => <<q[2], q[3]>> \in c.flux

\* C22 (as amended): the combined channels (satellite 0) prepare returns have
\* as declared range the hull of the ranges handed to the combiner, widened by
\* exactly the combine border on each side; the hull is the batch range R
\* widened by the clean border, for a channel was cleaned, so the combined
\* range is R widened by the clean border plus the combine border.  The
\* combiner's input (provided channels extended from the store, and stored
\* channels the dict lacks) covers the hull widened by twice the combine border.
C22_CombinedRange ==
    (prep_pc = "prepared" /\ prep_channels # <<>>) =>
        /\ CombinedRangeIs(ProvidedHull, COMBINE_BORDER_SIZE)
        /\ ProvidedHull = <<prep_range[1] - CLEAN_BORDER_SIZE, prep_range[2] + CLEAN_BORDER_SIZE>>
        /\ CombinedRangeIs(prep_range, CLEAN_BORDER_SIZE + COMBINE_BORDER_SIZE)
        /\ Len(CombinedEntries) = 2
        /\ InputCoversFetchRange(InputChannels(table[import_source], aggs[import_source],
                                               import_source, HandedToCombine))

\* C22 witness: a batch was prepared whose combined clean series has a row
\* further than the combine border away from the batch range.
C22_Witness ==
    /\ prep_pc = "prepared"
    /\ Len(CombinedEntries) = 2
    /\ \E i \in DOMAIN CombinedEntries :
          /\ CombinedEntries[i].channel[3]
          /\ \E r \in CombinedEntries[i].flux :
                r[1] > prep_range[2] + COMBINE_BORDER_SIZE

\* C22 as stated: the combined channels have the batch range widened by the
\* combine border as their declared range.
C22_Original ==
    (prep_pc = "prepared" /\ prep_channels # <<>>) =>
        CombinedRangeIs(prep_range, COMBINE_BORDER_SIZE)

-----------------------------------------------------------------------------
(***************************************************************************)
(* Claims about the query fetcher                                          *)
(***************************************************************************)

\* The stored range <<first, last>> overlaps [section_start, end).
Overlaps(source_range, section_start, end) ==
    /\ source_range # <<>>
    /\ section_start < end
    /\ source_range[1] < end
    /\ section_start <= source_range[2]

\* The walk as stated: a source whose range does not overlap is passed over, an
\* overlapping one gets one fetch over [section_start, min(source.end, end)).
RECURSIVE StatedWalk(_, _, _, _, _)
StatedWalk(ranges, i, section_start, end, issued) ==
    IF i > Len(_SOURCES) THEN issued
    ELSE LET source == _SOURCES[i]
             source_range == ranges[source]
         IN  IF ~Overlaps(source_range, section_start, end)
             THEN StatedWalk(ranges, i + 1, section_start, end, issued)
             ELSE LET section_end == IF source_range[2] <= end THEN source_range[2] ELSE end
                      more == Append(issued, [source |-> source, start |-> section_start,
                                              end |-> section_end])
                  IN  IF end <= source_range[2] THEN more
                      ELSE StatedWalk(ranges, i + 1, section_end, end, more)

\* C8: for any index state and any request with start <= end, the section
\* fetches issued are those of the walk over ARCHIVE then LIVE that gives every
\* source whose stored range overlaps [section_start, end) exactly one fetch
\* over [section_start, min(source.end, end)), stops if end <= source.end and
\* otherwise goes on with section_start set to that section's end.
C8_SectionsOfOverlappingSources ==
    fetch_pc \in {"gather", "done", "failed"} =>
        sections = StatedWalk(_ranges, 1, request[1], request[2], <<>>)

\* C9: the concatenation of the section results is strictly ascending in time
\* (so it has no timestamp twice), for every (start, end, interval), index
\* state and stored data, also when the interval exceeds a source's raw
\* resolution.  (With two sources there is one source boundary, so no gap can
\* span more than one.)
C9_NoDuplicateTimestamps ==
    fetch_pc = "done" => StrictlyAscending(result)

\* The rows of the relation a query of the source at the interval reads, as
\* <<time, flux>>.
RelationRows(source, interval) ==
    IF interval <= raw_resolution(source) \/ select_relation(source, interval) = 0
    THEN {<<r[2], r[3]>> : r \in {q \in table[source] : q[1] = _DEFAULT_CHANNEL}}
    ELSE {<<r.time, r.flux_max>>
            : r \in {q \in aggs[source][select_relation(source, interval)]
                       : q.channel = _DEFAULT_CHANNEL}}

\* The timestamp under which a row of the relation is returned.
ReturnedTime(source, interval, time) ==
    IF interval <= raw_resolution(source) THEN time ELSE time_bucket(interval, time)

\* The time lies inside the indexed range of the source.
InIndexedRange(source, time) ==
    /\ _ranges[source] # <<>>
    /\ _ranges[source][1] <= time
    /\ time <= _ranges[source][2]

\* The time lies inside the range of a source of higher priority.
InHigherPriorityRange(source, time) ==
    \E i, j \in DOMAIN _SOURCES :
        /\ _SOURCES[j] = source
        /\ i < j
        /\ InIndexedRange(_SOURCES[i], time)

\* C10: a fetch over [start,end) that does not fail returns the series for the
\* whole intersection of [start,end) with the available data: every stored row
\* in [start,end) inside an indexed source's range and not inside a
\* higher-priority source's range contributes to the result (the result has a
\* row at its returned timestamp whose flux is at least the row's); a fetch with
\* a failed section returns no rows.
C10_CompleteOrError ==
    /\ fetch_pc = "done" =>
          \A source \in SourceSet : \A r \in RelationRows(source, request[3]) :
              (/\ InRange(r[1], request[1], request[2])
               /\ InIndexedRange(source, r[1])
               /\ ~InHigherPriorityRange(source, r[1]))
              => \E i \in DOMAIN result :
                    /\ result[i][1] = ReturnedTime(source, request[3], r[1])
                    /\ result[i][2] >= r[2]
    /\ fetch_pc = "failed" => result = <<>>

\* C11: for a query resolution R >= 1 and interval I = (end - start) / R, a
\* fetch over [start,end) returns at most R + 1 rows, for every index state and
\* every stored data set sampled at the sources' raw resolutions.
C11_AtMostResolutionPlusOneRows ==
    (/\ fetch_pc = "done"
     /\ request[1] < request[2]
     /\ (request[2] - request[1]) % request[3] = 0)
    => Len(result) <= ((request[2] - request[1]) \div request[3]) + 1

-----------------------------------------------------------------------------
(***************************************************************************)
(* Claims about the live importer and the supervisor                       *)
(***************************************************************************)

\* The last timestamp of a satellite's row in the LIVE table.
LastStored == fetch_last_flux_timestamp(table["LIVE"])

\* C12 (as amended): at the start of every importer iteration the resume point
\* is the last non-combined timestamp stored for the source plus one
\* millisecond, whatever IMPORT_START is, and it is IMPORT_START when the
\* source holds no non-combined row.
C12_ResumeAfterLastRow ==
    live_pc = "import" =>
        live_start = IF LastStored = None THEN import_start ELSE LastStored + 1

\* C12 witness: an iteration starts from the row after the last stored one
\* although IMPORT_START is later.
C12_Witness ==
    /\ live_pc = "import"
    /\ LastStored # None
    /\ LastStored + 1 < import_start
    /\ live_start = LastStored + 1

\* C12 as stated: the resume point is the larger of the last non-combined
\* timestamp plus one millisecond and IMPORT_START.
C12_Original ==
    live_pc = "import" =>
        live_start = IF LastStored = None \/ LastStored + 1 < import_start
                     THEN import_start ELSE LastStored + 1

\* A batch worker has raised and the parent has not yet seen it.
WorkerFailed == main_pc = "waiting" /\ \E b \in Batches : pc[b] = "failed"

FeedChannels(json, start) ==
    {<<_from_live_json(json, Bands[i], start).satellite, Bands[i], FALSE>> :
        i \in {j \in DOMAIN Bands : _from_live_json(json, Bands[j], start).satellite # None}}

\* C14: when an iteration of the live importer has ended, every channel of the
\* polled feeds, a channel whose parsed series is empty included, was prepared
\* and upserted over the declared range [resume, now), the range not being
\* empty.
C14_EveryPolledChannelUpserted ==
    live_pc = "sleep" /\ live_start < live_now =>
        \A f \in DOMAIN feeds : \A channel \in FeedChannels(feeds[f], live_start) :
            \E k \in DOMAIN imported :
                /\ imported[k].channel = channel
                /\ imported[k].start = live_start
                /\ imported[k].end = live_now

\* The records of a band the parser looks at: those of the band's energy
\* with no record of that energy older than the resume point after them in
\* the feed (the loop runs from the newest record and ends at such a record).
Scanned(json, energy, start) ==
    {i \in DOMAIN json :
        /\ json[i].energy = energy
        /\ ~\E j \in DOMAIN json :
              j > i /\ json[j].energy = energy /\ json[j].time_tag < start}

\* Within one band the records the parser looks at name two satellites.
MixedBand(json, start) ==
    \E b \in DOMAIN Bands :
        \E i, j \in Scanned(json, _FREQUENCY_TO_ENERGY(Bands[b]), start) :
            json[i].satellite # json[j].satellite

\* The records of the feed name two satellites.
MixedFeed(json) == \E i, j \in DOMAIN json : json[i].satellite # json[j].satellite

\* C16: a polled feed in which, within one band, the records the parser looks
\* at name more than one satellite makes the iteration raise, and the
\* iteration writes nothing; an iteration that ends without raising polled
\* no such feed.
C16_MixedBandRaises ==
    /\ [](\A f \in DOMAIN feeds :
            MixedBand(feeds[f], live_start) =>
                /\ live_pc = "crashed"
                /\ imported = <<>>
                /\ f = Len(feeds))
    /\ [][live_pc = "import" /\ live_pc' = "crashed" =>
             table' = table /\ aggs' = aggs]_vars

\* C16 witness: the iteration raised on a feed whose long band names two
\* satellites.
C16_Witness ==
    /\ live_pc = "crashed"
    /\ feeds # <<>>
    /\ MixedBand(feeds[1], live_start)
    /\ imported = <<>>

\* C16 as stated: every polled feed whose records name more than one satellite
\* makes the iteration raise and nothing is written.
C16_Original ==
    \A f \in DOMAIN feeds :
        MixedFeed(feeds[f]) => live_pc = "crashed" /\ imported = <<>>

\* The channels the iteration handed to prepare_flux_channels.
LiveProvided == WithRange(live_channels, <<live_start, live_now>>)

\* C17: prepare and the combiner do not raise because of the data: whatever
\* the LIVE table holds after the earlier iterations and whatever the clean
\* tasks return for the channels of the iteration, _combine does not raise the
\* ValueError of a missing raw/clean pair.
C17_CombineNeverRaises ==
    live_pc = "crashed" /\ live_channels # <<>> =>
        \A cleaned \in CleanTasks(table["LIVE"], aggs["LIVE"], "LIVE", LiveProvided, 1) :
            ~CombineRaises(table["LIVE"], aggs["LIVE"], "LIVE", LiveProvided \o cleaned)

-----------------------------------------------------------------------------
(***************************************************************************)
(* Claims about the download stage of the archive importer                 *)
(***************************************************************************)

\* _download_results has returned for the satellite and its last try still
\* had errors.
Exhausted(satellite) ==
    /\ dl_pc[satellite] \in {"load", "loaded"}
    /\ files[satellite] # SearchResults(satellite)

\* The raw channel the files of the satellite's last try give for a band.
LoadedEntry(satellite, band) ==
    [channel |-> <<satellite, band, FALSE>>, start |-> BatchRange[1], end |-> BatchRange[2],
     flux |-> {<<f - 1, 12>> : f \in files[satellite]}]

\* C15: when a satellite's download still has errors after the last try, the
\* error is logged and the batch goes on with the files of the last try: every
\* satellite with a file, that satellite included, has its channels in the dict
\* handed to prepare_flux_channels, a satellite without a file has none, and
\* when the database stage has returned these channels were upserted.
C15_ExhaustedDownloadGoesOn ==
    /\ \A satellite \in BatchSatellites :
          /\ Exhausted(satellite) /\ dl_pc[satellite] = "load" =>
                i_try[satellite] = _MAX_DOWNLOAD_TRIES
          /\ Exhausted(satellite) => satellite \in error_log
    /\ (batch_pc # "download" /\ \E satellite \in BatchSatellites : Exhausted(satellite)) =>
        /\ \A satellite \in BatchSatellites : \A i \in DOMAIN Bands :
              IF files[satellite] = {}
              THEN \A k \in DOMAIN batch_channels :
                      batch_channels[k].channel # <<satellite, Bands[i], FALSE>>
              ELSE \E k \in DOMAIN batch_channels :
                      batch_channels[k] = LoadedEntry(satellite, Bands[i])
        /\ batch_pc = "done" =>
              \A k \in DOMAIN batch_channels :
              /\ \E j \in DOMAIN batch_imported : batch_imported[j] = batch_channels[k]
              /\ \A r \in batch_channels[k].flux :
                    <<batch_channels[k].channel, r[1], r[2]>> \in table["ARCHIVE"]

\* C15 witness: satellite 1 gave up with one of its two files, and the channels
\* of that file were upserted.
C15_Witness ==
    /\ batch_pc = "done"
    /\ Exhausted(1)
    /\ files[1] # {}
    /\ \E j \in DOMAIN batch_imported : batch_imported[j] = LoadedEntry(1, "long")

\* C15 as stated: after a download that used up its tries with errors, the
\* error is logged and none of the batch's channels is prepared or upserted.
C15_Original ==
    (batch_pc # "download" /\ \E satellite \in BatchSatellites : Exhausted(satellite)) =>
        /\ \A satellite \in BatchSatellites : Exhausted(satellite) => satellite \in error_log
        /\ batch_pc = "done"
        /\ batch_channels = <<>>
        /\ batch_imported = <<>>
        /\ table["ARCHIVE"] = {}

\* _download_results has returned for the satellite.
Returned(satellite) == dl_pc[satellite] = "load"

\* The tries and sleeps of a call of _download_results, while it runs and
\* when it has returned: at most _MAX_DOWNLOAD_TRIES tries, a sleep of
\* _DOWNLOAD_BACKOFF times k after the k-th failed try but the last possible
\* one, and a return with errors only after the last possible try.
TriesAndSleeps ==
    \A satellite \in BatchSatellites :
        /\ i_try[satellite] <= _MAX_DOWNLOAD_TRIES
        /\ Len(slept[satellite]) <= _MAX_DOWNLOAD_TRIES - 1
        /\ \A k \in DOMAIN slept[satellite] : slept[satellite][k] = 30 * k
        /\ dl_pc[satellite] = "download" =>
              /\ i_try[satellite] < _MAX_DOWNLOAD_TRIES
              /\ Len(slept[satellite]) = i_try[satellite]
        /\ Returned(satellite) =>
              /\ i_try[satellite] >= 1
              /\ Len(slept[satellite]) =
                    IF files[satellite] = SearchResults(satellite)
                    THEN i_try[satellite] - 1
                    ELSE _MAX_DOWNLOAD_TRIES - 1
              /\ files[satellite] # SearchResults(satellite)
                    => i_try[satellite] = _MAX_DOWNLOAD_TRIES

\* A try without errors is the last one, and the files returned are those of
\* the last try.
TryStep ==
    \A satellite \in BatchSatellites :
        (dl_pc[satellite] = "download" /\ i_try'[satellite] = i_try[satellite] + 1) =>
            /\ files'[satellite] = SearchResults(satellite) => Returned(satellite)'
            /\ Returned(satellite)' =>
                  ReturnedFiles(files'[satellite], SearchResults(satellite)) = files'[satellite]

\* C24: _download_results always terminates: it makes at most 5 fetch attempts
\* per satellite, stops at the first attempt without errors, sleeps 30 s x k
\* after the k-th failed attempt for k = 1..4, does not sleep after the 5th
\* failed attempt, and returns the files of the last attempt.
C24_DownloadTerminates ==
    /\ []TriesAndSleeps
    /\ [][TryStep]_vars
    /\ \A satellite \in BatchSatellites :
          (dl_pc[satellite] = "download") ~> Returned(satellite)

\* C24 witness: a download has returned after five failed attempts and four
\* sleeps, the last of 120 s.
C24_Witness ==
    \E satellite \in BatchSatellites :
        /\ Returned(satellite)
        /\ i_try[satellite] = 5
        /\ files[satellite] # SearchResults(satellite)
        /\ slept[satellite] = <<30, 60, 90, 120>>

-----------------------------------------------------------------------------
(***************************************************************************)
(* Claims about the combiner                                               *)
(***************************************************************************)

\* The series of the satellites of the call, by satellite, in one version.
VersionFluxes(is_clean) ==
    LET raw == RawOrder({c \in combine_args[2] : ~c.channel[3]})
    IN  [i \in DOMAIN raw |->
           (CHOOSE d \in combine_args[2] :
               d.channel = <<raw[i].channel[1], raw[i].channel[2], is_clean>>).flux]

\* The values the satellites with a weight above zero have at t in the
\* version, a satellite without a row at t with its interpolated value.
Contributing(is_clean, t) ==
    LET fluxes == VersionFluxes(is_clean)
        weights == SegmentWeights(fluxes, VersionFluxes(TRUE))
        index == CombinedIndex(fluxes, weights)
    IN  {Interpolated(fluxes[i], index, t) : i \in {j \in DOMAIN fluxes : weights[j] > 0}}

\* C18: every value of a combined channel is a number between the smallest
\* and the largest of the values the satellites with a weight above zero have
\* at its timestamp.
C18_CombinedWithinBounds ==
    combine_pc = "returned" =>
        \A k \in DOMAIN result_channels : \A r \in result_channels[k].flux :
            LET values == Contributing(result_channels[k].channel[3], r[1])
            IN  /\ r[2] # NaN
                /\ values # {}
                /\ SetMin(values) <= r[2]
                /\ r[2] <= SetMax(values)

-----------------------------------------------------------------------------
(***************************************************************************)
(* Claims about the cleaner                                                *)
(***************************************************************************)

\* The row is the first of its timestamp in the input and its flux lies inside
\* (0, 1).
FirstAndSane(i) ==
    /\ clean_input[i][2] # NaN
    /\ 0 < clean_input[i][2]
    /\ clean_input[i][2] < FluxOne
    /\ \A j \in DOMAIN clean_input : j < i => clean_input[j][1] # clean_input[i][1]

\* C19: clean_flux returns the empty series for an empty input and for an
\* input without a row inside (0, 1); every timestamp it returns is a
\* timestamp of the input whose first row lies inside (0, 1), it returns no
\* timestamp twice and no NaN.
C19_CleanKeepsFirstSaneRows ==
    clean_pc = "returned" =>
        /\ (\A i \in DOMAIN clean_input :
               ~(0 < clean_input[i][2] /\ clean_input[i][2] < FluxOne))
              => clean_output = {}
        /\ \A r \in clean_output :
              /\ r[2] # NaN
              /\ \E i \in DOMAIN clean_input : clean_input[i][1] = r[1] /\ FirstAndSane(i)
              /\ \A q \in clean_output : q[1] = r[1] => q = r

\* C19 witness: the first row of tick 0 lies outside (0, 1) and a later row of
\* tick 0 inside; the call returned the row of tick 1 only.
C19_Witness ==
    /\ clean_pc = "returned"
    /\ Len(clean_input) = 3
    /\ clean_input[1] = <<0, FluxOne>>
    /\ clean_input[2] = <<0, 12>>
    /\ clean_input[3][1] = 1
    /\ clean_output # {}
    /\ \A r \in clean_output : r[1] = 1

-----------------------------------------------------------------------------
(***************************************************************************)
(* Claims about the refresh task of the fetcher                            *)
(***************************************************************************)

\* C20: as long as the fetcher is not cancelled its range index is refreshed
\* again and again: after every refresh attempt, one that raised a database
\* error included, another attempt follows or the fetcher is cancelled; and
\* cancel() makes the loop return without raising.
C20_RefreshGoesOn ==
    /\ (update_pc \in {"sleep", "raised"}) ~> (update_pc \in {"update", "returned"})
    /\ [][(update_pc \in {"update", "sleep"}
               /\ update_pc' \notin {"update", "sleep", "raised"})
              => (update_pc' = "returned")]_vars

-----------------------------------------------------------------------------
(***************************************************************************)
(* Claims about the cleanup step of an archive batch                       *)
(***************************************************************************)

\* C25 as stated: when the cleanup step of a batch has completed, every file
\* downloaded for the batch is unlinked, in whatever order the executor threads
\* run the unlink jobs relative to the creation of the remaining jobs; the
\* cleanup starts only with the batch's database_event set; a file that is
\* already missing is no error (the step completes all the same).
C25_AllFilesUnlinked ==
    /\ cleanup_pc = "done" => staged = {}
    /\ cleanup_pc \in {"cleanup", "done"} => batch_database_event
    /\ \A i \in UsedFiles : unlink_jobs[i] # "none" => cleanup_pc \in {"cleanup", "done"}

-----------------------------------------------------------------------------
(***************************************************************************)
(* Claims about the wait of the live importer                              *)
(***************************************************************************)

\* max_age - age of the i-th response, with 60 and 0 for what is absent.
Freshness(i) ==
    (IF \E n \in {30, 60, 120} : responses[i].cache_control.max_age = {n}
     THEN SetMax(responses[i].cache_control.max_age)
     ELSE 60)
        - (IF responses[i].age \in {0, 10, 90} THEN responses[i].age ELSE 0)

\* C26 (as amended): the wait the live importer returns is one second more
\* than the least of 60 s and max_age - age of the primary and of the
\* secondary feed response, where max_age is the max-age directive of the
\* response's Cache-Control header (60 when absent) and age its Age header
\* (0 when absent).
C26_WaitIsLeastFreshness ==
    wait_pc = "returned" =>
        /\ wait_delta \in {61, Freshness(1) + 1, Freshness(2) + 1}
        /\ wait_delta <= 61
        /\ wait_delta <= Freshness(1) + 1
        /\ wait_delta <= Freshness(2) + 1

\* C26 witness: the secondary feed is the least fresh, and the wait follows it.
C26_Witness ==
    /\ wait_pc = "returned"
    /\ Freshness(1) = 60
    /\ Freshness(2) = 20
    /\ wait_delta = 21

\* C26 as stated: the wait is max_age - age + 1 of the feed response (of one
\* of the two).
C26_Original ==
    wait_pc = "returned" =>
        (wait_delta = Freshness(1) + 1 \/ wait_delta = Freshness(2) + 1)

-----------------------------------------------------------------------------
(***************************************************************************)
(* Claims about the clean tasks of prepare_flux_channels                   *)
(***************************************************************************)

\* The await loop has left with an exception.
LoopRaised == outer_pc = "raised" /\ await_index \in CleanTaskIds

\* The loop goes past a task only with its result, and with a task that
\* raised or with a cancellation it leaves with the exception, every task that
\* was not done cancelled in the same step.
AwaitStep ==
    /\ await_index' # await_index =>
          /\ await_index' = await_index + 1
          /\ clean_tasks[await_index] = "done"
    /\ (outer_pc = "awaiting" /\ await_index \in CleanTaskIds
            /\ clean_tasks[await_index] = "raised")
          => (outer_pc' \in {"awaiting", "raised"} /\ await_index' = await_index)
    /\ (~LoopRaised /\ LoopRaised') =>
          \A i \in CleanTaskIds :
              clean_tasks'[i] = IF clean_tasks[i] = "running" THEN "cancelled"
                                ELSE clean_tasks[i]

\* C27: when awaiting a clean task raises, or the outer task is cancelled
\* while clean tasks are in flight, every clean task of the batch is
\* cancelled (none is left running), the exception propagates, and neither
\* the combiner nor import_flux runs for the batch.
C27_CleanTasksCancelled ==
    /\ [](LoopRaised =>
            /\ \A i \in CleanTaskIds : clean_tasks[i] \in {"done", "raised", "cancelled"}
            /\ ran = {})
    /\ [](ran # {} => \A i \in CleanTaskIds : clean_tasks[i] = "done")
    /\ []("import" \in ran => "combine" \in ran)
    /\ [][AwaitStep]_vars

\* C27 witness: the second task raised after the first gave its result; the
\* third was in flight and is cancelled, and nothing ran after the loop.
C27_Witness ==
    /\ LoopRaised
    /\ await_index = 2
    /\ clean_tasks[1] = "done"
    /\ clean_tasks[2] = "raised"
    /\ clean_tasks[3] = "cancelled"
    /\ ran = {}

-----------------------------------------------------------------------------
(***************************************************************************)
(* Claims about the index of the fetcher                                   *)
(***************************************************************************)

\* The sources with a range in the index.
Indexed == {src \in SourceSet : _ranges[src] # <<>>}

\* start is the least range start and end the greatest range end of the
\* index, and both are None exactly when the index has no range.
IndexConsistent ==
    /\ (self_start = None) <=> (Indexed = {})
    /\ (self_end = None) <=> (Indexed = {})
    /\ Indexed # {} =>
          /\ \E src \in Indexed : self_start = _ranges[src][1]
          /\ \A src \in Indexed : self_start <= _ranges[src][1]
          /\ \E src \in Indexed : self_end = _ranges[src][2]
          /\ \A src \in Indexed : _ranges[src][2] <= self_end

\* A step that changes one of _ranges, start and end is the end of an update
\* and sets all three from what that update read.
IndexStep ==
    (_ranges' # _ranges \/ self_start' # self_start \/ self_end' # self_end) =>
        /\ index_pc = "query" /\ index_pc' = "sleep"
        /\ update_locals.i = Len(_SOURCES)
        /\ \A src \in SourceSet :
              _ranges'[src] = IF src = _SOURCES[Len(_SOURCES)]
                              THEN fetch_flux_timestamp_range(table[src])
                              ELSE update_locals.ranges[src]

\* C28: in every state a fetch can observe, start is the minimum of the
\* stored source range starts and end the maximum of their ends, both are
\* None exactly when no source has a range, and _ranges, start and end stem
\* from the same refresh: no state between the awaits of update() shows a
\* partly updated index.
C28_IndexConsistent == []IndexConsistent /\ [][IndexStep]_vars

\* C28 witness: an update is between its two queries, the store has changed
\* since the last refresh, and the index still shows the two ranges of that
\* refresh.
C28_Witness ==
    /\ index_pc = "query"
    /\ update_locals.i = 2
    /\ Indexed = SourceSet
    /\ update_locals.ranges["ARCHIVE"] # _ranges["ARCHIVE"]
    /\ update_locals.ranges["ARCHIVE"] # <<>>
    /\ self_start # self_end

-----------------------------------------------------------------------------
(***************************************************************************)
(* Claims about the batch ranges of the archive import                     *)
(***************************************************************************)

\* The ranges are in order, none is reversed or longer than a batch, the
\* first begins at the resume point, each next begins where the one before
\* ends, and the last ends at now.
RangesCover ==
    /\ Len(time_ranges) >= 1
    /\ time_ranges[1].start = batch_start
    /\ time_ranges[Len(time_ranges)].end = batch_now
    /\ \A i \in 1..Len(time_ranges) :
          /\ time_ranges[i].start <= time_ranges[i].end
          /\ time_ranges[i].end - time_ranges[i].start <= BatchDelta
    /\ \A i \in 1..(Len(time_ranges) - 1) :
          time_ranges[i + 1].start = time_ranges[i].end

\* C29: for every resume point start <= now, the batch ranges _import_from
\* has submitted are ascending, each has start <= end and spans at most 30
\* days, the first begins at the resume point, each next begins where the
\* previous ends, and the last ends at now.
C29_BatchesCover == (range_pc = "wait") => RangesCover

\* With the local date ahead of the UTC date no batch begins after now.
NoReversedBatch ==
    ~ (/\ range_pc = "wait"
       /\ batch_today > Date(batch_now)
       /\ \E i \in 1..Len(time_ranges) : time_ranges[i].start > time_ranges[i].end)

\* With the local date behind the UTC date the last batch ends at now.
NoEarlyEnd ==
    ~ (/\ range_pc = "wait"
       /\ batch_today < Date(batch_now)
       /\ \/ time_ranges = <<>>
          \/ time_ranges[Len(time_ranges)].end < batch_now)

\* With the local date equal to the UTC date the ranges cover [start, now).
RangesCoverInUtc ==
    (range_pc = "wait" /\ batch_today = Date(batch_now)) => RangesCover

-----------------------------------------------------------------------------
(***************************************************************************)
(* Claims about the rows prepare_flux_channels hands to import_flux        *)
(***************************************************************************)

\* Every row of every entry lies inside the entry's declared range [start, end).
RowsInsideRange(chs) ==
    \A i \in DOMAIN chs :
        \A r \in chs[i].flux : InRange(r[1], chs[i].start, chs[i].end)

\* C30: every row prepare_flux_channels hands to import_flux for a channel
\* lies inside the channel's declared half-open range [start, end): no cleaned
\* or combined series has a timestamp at or beyond its declared end or before
\* its start, so a repeat of the upsert deletes every row it inserts and no
\* primary-key conflict arises on re-import.
C30_RowsInsideRange ==
    prep_pc \in {"prepared", "importing"} => RowsInsideRange(prep_channels)

\* No upsert of a prepared dict fails on the primary key.
NoPreparedConflict ==
    ~ (prep_pc = "importing" /\ imp_pc = "failed" /\ fail_reason = "conflict")

\* A row outside the declared range of its entry sits at the declared end, in
\* a cleaned or a combined entry.
OutsideOnlyAtEnd ==
    prep_pc \in {"prepared", "importing"} =>
        \A i \in DOMAIN prep_channels :
            \A r \in prep_channels[i].flux :
                ~InRange(r[1], prep_channels[i].start, prep_channels[i].end) =>
                    /\ r[1] = prep_channels[i].end
                    /\ \/ prep_channels[i].channel[3]
                       \/ prep_channels[i].channel[1] = SATELLITE_COMBINED_ID

=============================================================================
